---- MODULE Spec2Model ----
(***************************************************************************)
(* Model of AuthManager (auth-manager.ts) of live-dashboard: the account   *)
(* registry, the authorization queue, the drain (processAuthQueue), the    *)
(* user-triggered agent login (startAgentAuth / cancelAgentAuth), the      *)
(* metrics calls (getLiveRooms, the startAutoRefresh sweep), addAccount,   *)
(* removeAccount and initialize, together with the rows of db.ts and the   *)
(* cookie helpers of cookie-manager.ts they call.                          *)
(*                                                                         *)
(* The program runs on one JavaScript event loop: code between two awaits  *)
(* is atomic.  Every action below is one such stretch: it starts where an  *)
(* await resumes (or where a call enters) and runs up to the next await,   *)
(* every synchronous call it makes included.                               *)
(***************************************************************************)
EXTENDS Integers, Sequences, FiniteSets, TLC

\* ---------------------------------------------------------------- bounds
NumIds == 2          \* account IDs are 1..NumIds
MaxOps == 2          \* calls made from outside (IPC, timer, user) in one behaviour
maxRetries == 2      \* polls of waitForAgentLogin (the program polls 30 times)
NumSnapshots == 1    \* distinct non-null results of fetchLiveRooms

IDs == 1..NumIds
Snapshots == 1..NumSnapshots
DrainSlots == {1, 2}  \* activations of processAuthQueue that can be told apart
AgentSlots == {1, 2}  \* activations of startAgentAuth that can be told apart
Ticks == {1, 2}       \* overlapping callbacks of the setInterval timer
AddSlots == {1, 2}    \* calls of addAccount for one ID that can be in flight together

\* A BrowserWindow is named after the activation that created it.
DrainWin(s) == s
AgentWin(f) == 2 + f
\* unnamed/part_000 and src/auth-manager.ts are two sources of class AuthManager;
\* they differ in getLiveRooms alone
Builds == {"part_000", "auth-manager.ts"}
Wins == {DrainWin(s) : s \in DrainSlots} \cup {AgentWin(f) : f \in AgentSlots}

VARIABLES
  accounts,            \* this.accounts: the Map's entries in insertion order
  objCount,            \* per ID, the number of AccountData objects created so far
  refreshingAccounts,  \* this.refreshingAccounts
  authQueue,           \* this.authQueue: a Set, kept in insertion order
  isAuthRunning,       \* this.isAuthRunning
  authProgress,        \* this.authProgress
  isAgentAuthRunning,  \* this.isAgentAuthRunning
  agentAuthWin,        \* this.agentAuthWin (0 is null)
  wins,                \* per login window: "open", "closed" (destroyed by the user),
                       \* "cancelled" (destroyed by cancelAgentAuth), or "none"
                       \* (not created, or destroyed and its activation over)
  dbAgent,             \* row 1 of table agents
  dbAccounts,          \* table accounts: adv_id -> row
  sesAccount,          \* owner of the chengzijianzhan.cn cookies of session persist:auth (0: none)
  drain,               \* activations of processAuthQueue
  agentFlow,           \* activations of startAgentAuth
  addCall,             \* per ID, the addAccount calls in flight
  liveCall,            \* per ID, the getLiveRooms call in flight
  tick,                \* callbacks of the refresh timer
  init,                \* the initialize() call of app.whenReady
  ops,                 \* calls made from outside so far
  build                \* which of the repository's two AuthManager sources runs
                       \* ("either" while no call has told them apart)

vars == <<build, accounts, objCount, refreshingAccounts, authQueue, isAuthRunning,
          authProgress, isAgentAuthRunning, agentAuthWin, wins,
          dbAgent, dbAccounts, sesAccount, drain, agentFlow, addCall, liveCall,
          tick, init, ops>>

\* ------------------------------------------------------- sequences, Map
Range(q) == {q[k] : k \in 1..Len(q)}

\* Set.delete on an insertion-ordered collection
SetDelete(q, x) == LET Keep(y) == y # x IN SelectSeq(q, Keep)
SetAdd(q, x) == IF x \in Range(q) THEN q ELSE Append(q, x)

\* AccountData: advId, the identity of the object (obj), and its fields.
NewAccount(id, n, c, st) ==
  [advId |-> id, obj |-> n, cookies |-> c, cookieStatus |-> st,
   liveRooms |-> 0, lastFetchTime |-> 0]

IdsOf(accs) == {accs[k].advId : k \in 1..Len(accs)}
IndexOf(accs, id) == CHOOSE k \in 1..Len(accs) : accs[k].advId = id
MapGet(accs, id) == accs[IndexOf(accs, id)]
MapHas(accs, id) == id \in IdsOf(accs)
\* Map.set: a new key goes last, an existing key keeps its place
MapSet(accs, rec) ==
  IF MapHas(accs, rec.advId)
    THEN [accs EXCEPT ![IndexOf(accs, rec.advId)] = rec]
    ELSE Append(accs, rec)
MapDelete(accs, id) == LET Keep(a) == a.advId # id IN SelectSeq(accs, Keep)

\* A task that kept a reference to an AccountData object writes through it; the
\* write shows in the registry only while that object is still the Map's value.
IsLive(accs, id, n) == MapHas(accs, id) /\ MapGet(accs, id).obj = n
\* account.liveRooms = result.live; account.endedRooms = result.ended;
\* account.lastFetchTime = Date.now()   (liveRooms stands for the pair live/ended)
ObjSetRooms(accs, id, n, rooms) ==
  IF IsLive(accs, id, n)
    THEN [accs EXCEPT ![IndexOf(accs, id)] =
           [@ EXCEPT !.liveRooms = rooms, !.lastFetchTime = 1]]
    ELSE accs
\* account.cookieStatus = st
ObjSetStatus(accs, id, n, st) ==
  IF IsLive(accs, id, n)
    THEN [accs EXCEPT ![IndexOf(accs, id)] = [@ EXCEPT !.cookieStatus = st]]
    ELSE accs
\* an assignment to account.cookies that is left out
ObjSetCookiesNone(accs, id, n, c) == accs
\* account.cookies = c
ObjSetCookies(accs, id, n, c) ==
  IF IsLive(accs, id, n)
    THEN [accs EXCEPT ![IndexOf(accs, id)] = [@ EXCEPT !.cookies = c]]
    ELSE accs
\* const acc = this.accounts.get(id); if (acc) acc.cookies = c
SetCookies(accs, id, c) ==
  IF MapHas(accs, id)
    THEN [accs EXCEPT ![IndexOf(accs, id)] = [@ EXCEPT !.cookies = c]]
    ELSE accs
\* const acc = this.accounts.get(id); if (acc) acc.cookieStatus = st
SetStatus(accs, id, st) ==
  IF MapHas(accs, id)
    THEN [accs EXCEPT ![IndexOf(accs, id)] = [@ EXCEPT !.cookieStatus = st]]
    ELSE accs

Registered == IdsOf(accounts)
Acc(id) == MapGet(accounts, id)

\* ------------------------------------------------------------- db rows
NoRow == [present |-> FALSE, cookies |-> 0, status |-> "unknown"]
Row(c, st) == [present |-> TRUE, cookies |-> c, status |-> st]

\* db.upsertAccount: INSERT when no row, otherwise the row is kept
upsertAccount(rows, id) ==
  IF rows[id].present THEN rows ELSE [rows EXCEPT ![id] = Row(0, "unknown")]
\* db.updateAccountCookies: UPDATE ... WHERE adv_id = ? (no row, no change)
updateAccountCookies(rows, id, c, st) ==
  IF rows[id].present THEN [rows EXCEPT ![id] = Row(c, st)] ELSE rows
\* db.updateAccountStatus
updateAccountStatus(rows, id, st) ==
  IF rows[id].present THEN [rows EXCEPT ![id].status = st] ELSE rows
\* a DELETE without its WHERE clause
deleteAccountAll(rows, id) == [j \in IDs |-> NoRow]
\* db.deleteAccount
deleteAccount(rows, id) == [rows EXCEPT ![id] = NoRow]
\* result.changes > 0, the value that deleteAccount and removeAccount return
deleteAccountResult(rows, id) == Cardinality({j \in {id} : rows[j].present}) > 0

\* ------------------------------------------------------ fetchLiveRooms
\* What a request of fetchLiveRooms comes to: the server answers with a code that
\* is not a success ("rejected"), the request or the parsing throws ("error"), or
\* the rows arrive ("ok").
FetchOutcomes ==
  {[kind |-> "rejected", rooms |-> 0], [kind |-> "error", rooms |-> 0]}
    \cup {[kind |-> "ok", rooms |-> r] : r \in Snapshots}

\* fetchLiveRooms: return null at the rejection, return null in the catch block,
\* return { live, ended } otherwise (0 is null)
fetchLiveRooms(o) == IF o.kind = "ok" THEN o.rooms ELSE 0

\* ------------------------------------------------- activations (records)
IdleDrain == [pc |-> "idle", pendingIds |-> <<>>, i |-> 0, poll |-> 0, obj |-> 0,
              cookies |-> 0]
IdleFlow == [pc |-> "idle", poll |-> 0]
IdleCall == [pc |-> "idle", obj |-> 0, cookies |-> 0]
IdleTick == [pc |-> "idle", seen |-> {}, advId |-> 0, obj |-> 0]
IdleInit == [pc |-> "done", rows |-> <<>>, k |-> 0, seen |-> {}, advId |-> 0, obj |-> 0]
IdleProgress == [isRunning |-> FALSE, current |-> 0, done |-> 0, total |-> 0]

\* The part of the state that enqueueAuth and processAuthQueue read and write.
Mgr == [accounts |-> accounts, authQueue |-> authQueue,
        isAuthRunning |-> isAuthRunning, authProgress |-> authProgress,
        agentAuthWin |-> agentAuthWin, wins |-> wins, drain |-> drain]

SetMgr(m) ==
  /\ accounts' = m.accounts
  /\ authQueue' = m.authQueue
  /\ isAuthRunning' = m.isAuthRunning
  /\ authProgress' = m.authProgress
  /\ agentAuthWin' = m.agentAuthWin
  /\ wins' = m.wins
  /\ drain' = m.drain

ActiveDrains(d) == {s \in DrainSlots : d[s].pc # "idle"}
FreeSlot(d) == CHOOSE s \in DrainSlots \ ActiveDrains(d) :
                 \A r \in DrainSlots \ ActiveDrains(d) : s <= r
\* ------------------------------------------- enqueueAuth, processAuthQueue
\* processAuthQueue, line 322: if (this.isAuthRunning || this.authQueue.size === 0) return
AuthGuardNoFlag(m) == m.authQueue = <<>>
AuthGuard(m) == m.isAuthRunning \/ m.authQueue = <<>>

\* new BrowserWindow(...); this.agentAuthWin = win; waitForAgentLogin(win, ses)
\* up to its first await (win.loadURL)
openLogin(m, s, d) ==
  [m EXCEPT !.wins[DrainWin(s)] = "open",
            !.agentAuthWin = DrainWin(s),
            !.drain[s] = [d EXCEPT !.pc = "loginLoad"]]

\* a drain start that trusts a stored status 'valid' and goes to the load of the
\* agent cookies without validating them
processAuthQueueTrusting(m, agent) ==
  IF AuthGuard(m) \/ ActiveDrains(m.drain) = DrainSlots THEN m
  ELSE LET s == FreeSlot(m.drain)
           d == [IdleDrain EXCEPT !.pendingIds = m.authQueue]
           m1 == [m EXCEPT !.isAuthRunning = TRUE,
                           !.authProgress = [isRunning |-> TRUE, current |-> 0,
                                             done |-> 0, total |-> Len(m.authQueue)]]
       IN IF agent.cookies # 0
            THEN [m1 EXCEPT !.drain[s] =
                    [d EXCEPT !.pc = IF agent.status = "valid" THEN "loadAgent"
                                     ELSE "validateAgent"]]
            ELSE openLogin(m1, s, d)

\* processAuthQueue from its entry to its first await.  agent is db.getAgent().
processAuthQueue(m, agent) ==
  IF AuthGuard(m) \/ ActiveDrains(m.drain) = DrainSlots THEN m
  ELSE LET s == FreeSlot(m.drain)
           d == [IdleDrain EXCEPT !.pendingIds = m.authQueue]
           m1 == [m EXCEPT !.isAuthRunning = TRUE,
                           !.authProgress = [isRunning |-> TRUE, current |-> 0,
                                             done |-> 0, total |-> Len(m.authQueue)]]
       IN IF agent.cookies # 0
            THEN [m1 EXCEPT !.drain[s] = [d EXCEPT !.pc = "validateAgent"]]
            ELSE openLogin(m1, s, d)

\* an enqueue without the test for an ID that is already queued
enqueueAuthAlways(m, id, agent) ==
  processAuthQueue(
    [m EXCEPT !.authQueue = Append(@, id),
              !.accounts = SetStatus(@, id, "authorizing")], agent)

enqueueAuth(m, id, agent) ==
  IF id \in Range(m.authQueue) THEN m
  ELSE processAuthQueue(
         [m EXCEPT !.authQueue = Append(@, id),
                   !.accounts = SetStatus(@, id, "authorizing")], agent)

\* a finally block that releases the drain and leaves the progress record as it is
drainFinallyKeepProgress(m, s, agent) ==
  processAuthQueue([m EXCEPT !.isAuthRunning = FALSE, !.drain[s] = IdleDrain], agent)

\* a finally block that does not look at the queue again
drainFinallyNoRestart(m, s, agent) ==
  [m EXCEPT !.isAuthRunning = FALSE, !.authProgress = IdleProgress,
            !.drain[s] = IdleDrain]

\* the finally block of processAuthQueue
drainFinally(m, s, agent) ==
  processAuthQueue(
    [m EXCEPT !.isAuthRunning = FALSE, !.authProgress = IdleProgress,
              !.drain[s] = IdleDrain], agent)

\* a failure path that fails the first account of the batch only
failBatchFirst(m, ids) ==
  IF ids = <<>> THEN m
  ELSE [m EXCEPT !.authQueue = SetDelete(@, Head(ids)),
                 !.accounts = SetStatus(@, Head(ids), "invalid")]

\* a failure path that marks the batch 'invalid' and leaves its IDs in the queue
failBatchKeepQueue(m, ids) ==
  [m EXCEPT !.accounts =
     [k \in 1..Len(m.accounts) |->
        IF m.accounts[k].advId \in Range(ids)
          THEN [m.accounts[k] EXCEPT !.cookieStatus = "invalid"]
          ELSE m.accounts[k]]]

RECURSIVE failBatch(_, _)
\* for (const id of pendingIds) { authQueue.delete(id); if (acc) acc.cookieStatus = 'invalid' }
failBatch(m, ids) ==
  IF ids = <<>> THEN m
  ELSE failBatch([m EXCEPT !.authQueue = SetDelete(@, Head(ids)),
                           !.accounts = SetStatus(@, Head(ids), "invalid")],
                 Tail(ids))

\* a loop head that takes the batch from its last ID backwards
beginStepReverse(m, s, k) ==
  LET j == Len(m.drain[s].pendingIds) + 1 - k
  IN [m EXCEPT !.drain[s].i = j, !.drain[s].pc = "traverse", !.drain[s].obj = 0,
               !.drain[s].cookies = 0,
               !.authProgress.current = m.drain[s].pendingIds[j]]

\* a loop head that does not record the current account
beginStepNoCurrent(m, s, k) ==
  [m EXCEPT !.drain[s].i = k, !.drain[s].pc = "traverse", !.drain[s].obj = 0,
            !.drain[s].cookies = 0]

\* the head of one iteration of the per-account loop, up to the await of
\* traverseToAccount
beginStep(m, s, k) ==
  [m EXCEPT !.drain[s].i = k, !.drain[s].pc = "traverse", !.drain[s].obj = 0,
            !.drain[s].cookies = 0,
            !.authProgress.current = m.drain[s].pendingIds[k]]

\* a loop that stops at the first account it has dealt with and leaves the rest
\* of the batch unprocessed
completeStepAbort(m, s, agent) ==
  drainFinally([m EXCEPT !.authQueue = SetDelete(@, m.drain[s].pendingIds[m.drain[s].i]),
                         !.authProgress.done = @ + 1], s, agent)

\* an iteration tail that takes the ID out of the queue without counting it
completeStepNoCount(m, s, agent) ==
  LET d == m.drain[s]
      m1 == [m EXCEPT !.authQueue = SetDelete(@, d.pendingIds[d.i])]
  IN IF d.i < Len(d.pendingIds) THEN beginStep(m1, s, d.i + 1)
     ELSE drainFinally(m1, s, agent)

\* an iteration tail that goes back to the ID it has just dealt with
completeStepRepeat(m, s, agent) ==
  beginStep([m EXCEPT !.authProgress.done = @ + 1], s, m.drain[s].i)

\* the tail of one iteration (authQueue.delete, done++), then the next iteration
\* or the end of the loop
completeStep(m, s, agent) ==
  LET d == m.drain[s]
      m1 == [m EXCEPT !.authQueue = SetDelete(@, d.pendingIds[d.i]),
                      !.authProgress.done = @ + 1]
  IN IF d.i < Len(d.pendingIds) THEN beginStep(m1, s, d.i + 1)
     ELSE drainFinally(m1, s, agent)

\* ----------------------------------------------------------------- drain
\* validateAgentCookies(JSON.parse(agent.cookies)) returned
DrainValidateAgent(s) ==
  /\ drain[s].pc = "validateAgent"
  /\ \E agentCookiesValid \in BOOLEAN :
       IF agentCookiesValid
         THEN SetMgr([Mgr EXCEPT !.drain[s].pc = "loadAgent"])
         ELSE SetMgr(openLogin(Mgr, s, drain[s]))
  /\ UNCHANGED <<build, objCount, refreshingAccounts, isAgentAuthRunning, dbAgent, dbAccounts,
                 sesAccount, agentFlow, addCall, liveCall, tick, init, ops>>

\* loadAgentCookiesToSession(ses) returned (its result is not read); the loop starts
DrainLoadAgent(s) ==
  /\ drain[s].pc = "loadAgent"
  /\ \E isValid \in BOOLEAN :
       dbAgent' = [dbAgent EXCEPT !.status = IF isValid THEN "valid" ELSE "invalid"]
  /\ SetMgr(beginStep(Mgr, s, 1))
  /\ UNCHANGED <<build, objCount, refreshingAccounts, isAgentAuthRunning, dbAccounts,
                 sesAccount, agentFlow, addCall, liveCall, tick, init, ops>>

\* waitForAgentLogin: win.loadURL(agentUrl) settled; a rejection reaches the outer catch
DrainLoginLoad(s) ==
  /\ drain[s].pc = "loginLoad"
  /\ \E loaded \in BOOLEAN :
       IF loaded
         THEN SetMgr([Mgr EXCEPT !.drain[s].pc = "loginPoll", !.drain[s].poll = 1])
         ELSE SetMgr(drainFinally(failBatch(Mgr, drain[s].pendingIds), s, dbAgent))
  /\ UNCHANGED <<build, objCount, refreshingAccounts, isAgentAuthRunning, dbAgent, dbAccounts,
                 sesAccount, agentFlow, addCall, liveCall, tick, init, ops>>

\* if (!win.isDestroyed()) win.close(); this.agentAuthWin = null
closeLogin(m, w) ==
  [m EXCEPT !.wins[w] = "none", !.agentAuthWin = 0]

\* lines 358-366: the login failed
loginFailed(m, s, agent) ==
  drainFinally(failBatch(closeLogin(m, DrainWin(s)), m.drain[s].pendingIds), s, agent)

\* one round of the poll loop of waitForAgentLogin, and what follows its return
DrainLoginPoll(s) ==
  /\ drain[s].pc = "loginPoll"
  /\ \E success \in BOOLEAN :
       IF success
         THEN /\ wins[DrainWin(s)] = "open"
              /\ dbAgent' = [cookies |-> 1, status |-> "valid"]
              /\ SetMgr(beginStep(closeLogin(Mgr, DrainWin(s)), s, 1))
         ELSE /\ UNCHANGED dbAgent
              /\ IF wins[DrainWin(s)] # "open" \/ drain[s].poll >= maxRetries
                   THEN SetMgr(loginFailed(Mgr, s, dbAgent))
                   ELSE SetMgr([Mgr EXCEPT !.drain[s].poll = @ + 1])
  /\ UNCHANGED <<build, objCount, refreshingAccounts, isAgentAuthRunning, dbAccounts,
                 sesAccount, agentFlow, addCall, liveCall, tick, init, ops>>

\* traverseToAccount(advId, ses) returned, lines 374-390.  "fail": it returned []
\* before saving (no button, an exception) or threw; "session": the click opened
\* the account's session; "nosession": no new session, the cookies of the shared
\* session are saved and returned as they are.
DrainTraverse(s) ==
  /\ drain[s].pc = "traverse"
  /\ LET advId == drain[s].pendingIds[drain[s].i] IN
     \E outcome \in {"fail", "session", "nosession"} :
       LET ses == IF outcome = "session" THEN advId ELSE sesAccount
           cookies == IF outcome = "fail" THEN 0 ELSE ses
       IN /\ sesAccount' = ses
          /\ IF cookies # 0 /\ MapHas(accounts, advId)
               THEN /\ dbAccounts' = updateAccountStatus(
                         updateAccountCookies(dbAccounts, advId, ses, "valid"),
                         advId, "valid")
                    /\ SetMgr([Mgr EXCEPT
                         !.accounts = SetStatus(SetCookies(accounts, advId, cookies),
                                                advId, "valid"),
                         !.drain[s].pc = "fetch",
                         !.drain[s].cookies = cookies,
                         !.drain[s].obj = Acc(advId).obj])
               ELSE /\ dbAccounts' = IF outcome = "fail" THEN dbAccounts
                         ELSE updateAccountCookies(dbAccounts, advId, ses, "valid")
                    /\ SetMgr(completeStep(
                         [Mgr EXCEPT !.accounts = SetStatus(@, advId, "invalid")],
                         s, dbAgent))
  /\ UNCHANGED <<build, objCount, refreshingAccounts, isAgentAuthRunning, dbAgent,
                 agentFlow, addCall, liveCall, tick, init, ops>>

\* fetchLiveRooms(advId, cookies) returned (0 is null), lines 381-398
DrainFetchOn(s, o) ==
  /\ drain[s].pc = "fetch"
  /\ LET advId == drain[s].pendingIds[drain[s].i]
         result == fetchLiveRooms(o)
     IN SetMgr(completeStep(
          [Mgr EXCEPT !.accounts =
             IF result # 0 THEN ObjSetRooms(@, advId, drain[s].obj, result) ELSE @],
          s, dbAgent))
  /\ UNCHANGED <<build, objCount, refreshingAccounts, isAgentAuthRunning, dbAgent, dbAccounts,
                 sesAccount, agentFlow, addCall, liveCall, tick, init, ops>>

DrainFetch(s) == \E o \in FetchOutcomes : DrainFetchOn(s, o)
\* ------------------------------------- startAgentAuth, cancelAgentAuth
FreeFlow == CHOOSE f \in AgentSlots :
              /\ agentFlow[f].pc = "idle"
              /\ \A g \in AgentSlots : agentFlow[g].pc = "idle" => f <= g

\* startAgentAuth, lines 50-57, up to the await of ses.cookies.get
StartAgentAuth(f) ==
  /\ init.pc # "start"
  /\ ops < MaxOps
  /\ ~isAgentAuthRunning
  /\ \E g \in AgentSlots : agentFlow[g].pc = "idle"
  /\ f = FreeFlow
  /\ isAgentAuthRunning' = TRUE
  /\ agentFlow' = [agentFlow EXCEPT ![f].pc = "clear"]
  /\ ops' = ops + 1
  /\ UNCHANGED <<build, accounts, objCount, refreshingAccounts, authQueue, isAuthRunning,
                 authProgress, agentAuthWin, wins, dbAgent, dbAccounts, sesAccount,
                 drain, addCall, liveCall, tick, init>>

\* lines 57-71: the agent cookies of the session are removed, the login window is
\* created and waitForAgentLogin starts loading the login page
AgentClear(f) ==
  /\ agentFlow[f].pc = "clear"
  /\ wins' = [wins EXCEPT ![AgentWin(f)] = "open"]
  /\ agentAuthWin' = AgentWin(f)
  /\ agentFlow' = [agentFlow EXCEPT ![f].pc = "loginLoad"]
  /\ UNCHANGED <<build, accounts, objCount, refreshingAccounts, authQueue, isAuthRunning,
                 authProgress, isAgentAuthRunning, dbAgent, dbAccounts, sesAccount,
                 drain, addCall, liveCall, tick, init, ops>>

\* the finally block of startAgentAuth, lines 81-91
agentFinally(m, f, agent) ==
  LET m1 == IF m.agentAuthWin # 0 /\ m.wins[m.agentAuthWin] = "open"
              THEN [m EXCEPT !.wins[m.agentAuthWin] =
                               IF m.agentAuthWin = AgentWin(f) THEN "none" ELSE "closed",
                             !.agentAuthWin = 0]
              ELSE m
      m2 == [m1 EXCEPT !.wins[AgentWin(f)] = IF @ = "open" THEN "open" ELSE "none"]
  IN IF m2.authQueue # <<>> THEN processAuthQueue(m2, agent) ELSE m2

RECURSIVE reauthorizeAll(_, _)
\* lines 77-80: every account is set 'authorizing' and added to the queue
reauthorizeAll(m, k) ==
  IF k > Len(m.accounts) THEN m
  ELSE reauthorizeAll(
         [m EXCEPT !.accounts[k].cookieStatus = "authorizing",
                   !.authQueue = SetAdd(@, m.accounts[k].advId)], k + 1)

\* waitForAgentLogin: win.loadURL settled; a rejection leaves by the finally block
AgentLoginLoad(f) ==
  /\ agentFlow[f].pc = "loginLoad"
  /\ \E loaded \in BOOLEAN :
       IF loaded
         THEN /\ agentFlow' = [agentFlow EXCEPT ![f].pc = "loginPoll", ![f].poll = 1]
              /\ UNCHANGED <<accounts, authQueue, isAuthRunning, authProgress,
                             agentAuthWin, wins, drain, isAgentAuthRunning>>
         ELSE /\ agentFlow' = [agentFlow EXCEPT ![f] = IdleFlow]
              /\ isAgentAuthRunning' = FALSE
              /\ SetMgr(agentFinally(Mgr, f, dbAgent))
  /\ UNCHANGED <<build, objCount, refreshingAccounts, dbAgent, dbAccounts, sesAccount,
                 addCall, liveCall, tick, init, ops>>

\* one round of the poll loop of waitForAgentLogin, and lines 72-91 after its
\* return; success is what the page's check of the login answered
AgentLoginPollOn(f, success) ==
  /\ agentFlow[f].pc = "loginPoll"
  /\ IF success
       THEN /\ wins[AgentWin(f)] = "open"
            /\ dbAgent' = [cookies |-> 1, status |-> "valid"]
            /\ agentFlow' = [agentFlow EXCEPT ![f] = IdleFlow]
            /\ isAgentAuthRunning' = FALSE
            /\ SetMgr(agentFinally(reauthorizeAll(Mgr, 1), f,
                                    [cookies |-> 1, status |-> "valid"]))
       ELSE /\ UNCHANGED dbAgent
            /\ IF wins[AgentWin(f)] # "open" \/ agentFlow[f].poll >= maxRetries
                 THEN /\ agentFlow' = [agentFlow EXCEPT ![f] = IdleFlow]
                      /\ isAgentAuthRunning' = FALSE
                      /\ SetMgr(agentFinally(Mgr, f, dbAgent))
                 ELSE /\ agentFlow' = [agentFlow EXCEPT ![f].poll = @ + 1]
                      /\ UNCHANGED <<accounts, authQueue, isAuthRunning, authProgress,
                                     agentAuthWin, wins, drain, isAgentAuthRunning>>
  /\ UNCHANGED <<build, objCount, refreshingAccounts, dbAccounts, sesAccount,
                 addCall, liveCall, tick, init, ops>>

AgentLoginPoll(f) == \E success \in BOOLEAN : AgentLoginPollOn(f, success)

\* cancelAgentAuth, lines 95-102 (called while a login window is referenced or a
\* flow is flagged running; otherwise it changes nothing)
CancelAgentAuth ==
  /\ init.pc # "start"
  /\ ops < MaxOps
  /\ agentAuthWin # 0 \/ isAgentAuthRunning
  /\ IF agentAuthWin # 0 /\ wins[agentAuthWin] = "open"
       THEN /\ wins' = [wins EXCEPT ![agentAuthWin] = "cancelled"]
            /\ agentAuthWin' = 0
       ELSE UNCHANGED <<wins, agentAuthWin>>
  /\ isAgentAuthRunning' = FALSE
  /\ ops' = ops + 1
  /\ UNCHANGED <<build, accounts, objCount, refreshingAccounts, authQueue, isAuthRunning,
                 authProgress, dbAgent, dbAccounts, sesAccount, drain, agentFlow,
                 addCall, liveCall, tick, init>>

\* the user closes a login window (waitForAgentLogin, line 148)
UserCloseWindow(w) ==
  /\ ops < MaxOps
  /\ wins[w] = "open"
  /\ wins' = [wins EXCEPT ![w] = "closed"]
  /\ ops' = ops + 1
  /\ UNCHANGED <<build, accounts, objCount, refreshingAccounts, authQueue, isAuthRunning,
                 authProgress, isAgentAuthRunning, agentAuthWin, dbAgent, dbAccounts,
                 sesAccount, drain, agentFlow, addCall, liveCall, tick, init>>
\* ------------------------------------------- addAccount, removeAccount
\* the lowest free activation of addAccount for id
FreeAdd(id) == CHOOSE a \in AddSlots :
                 /\ addCall[id][a].pc = "idle"
                 /\ \A b \in AddSlots : addCall[id][b].pc = "idle" => a <= b

\* addAccount, lines 419-431 and, when no cookies are stored, lines 440-463; for
\* an ID that is registered, lines 419-421: the registered record is returned
AddAccount(id) ==
  /\ init.pc # "start"
  /\ ops < MaxOps
  /\ \E a \in AddSlots : addCall[id][a].pc = "idle"
  /\ ops' = ops + 1
  /\ IF MapHas(accounts, id)
       THEN UNCHANGED <<accounts, objCount, authQueue, isAuthRunning, authProgress,
                        agentAuthWin, wins, drain, addCall, dbAccounts>>
       ELSE /\ dbAccounts' = upsertAccount(dbAccounts, id)
            /\ IF dbAccounts'[id].cookies # 0
                 THEN /\ addCall' = [addCall EXCEPT ![id][FreeAdd(id)] =
                           [pc |-> "validate", obj |-> 0,
                            cookies |-> dbAccounts'[id].cookies]]
                      /\ UNCHANGED <<accounts, objCount, authQueue, isAuthRunning,
                                     authProgress, agentAuthWin, wins, drain>>
                 ELSE /\ objCount' = [objCount EXCEPT ![id] = @ + 1]
                      /\ SetMgr(enqueueAuth(
                           [Mgr EXCEPT !.accounts =
                              MapSet(@, NewAccount(id, objCount[id] + 1, 0, "unknown"))],
                           id, dbAgent))
                      /\ UNCHANGED addCall
  /\ UNCHANGED <<build, refreshingAccounts, isAgentAuthRunning, dbAgent, sesAccount,
                 agentFlow, liveCall, tick, init>>

\* validateAccountCookies returned, lines 432-454
AddValidated(id, a) ==
  /\ addCall[id][a].pc = "validate"
  /\ objCount' = [objCount EXCEPT ![id] = @ + 1]
  /\ \E isValid \in BOOLEAN :
       IF isValid
         THEN /\ accounts' = MapSet(accounts,
                   NewAccount(id, objCount[id] + 1, addCall[id][a].cookies, "valid"))
              /\ addCall' = [addCall EXCEPT ![id][a].pc = "fetch",
                                            ![id][a].obj = objCount[id] + 1]
              /\ UNCHANGED <<authQueue, isAuthRunning, authProgress, agentAuthWin,
                             wins, drain>>
         ELSE /\ SetMgr(enqueueAuth(
                   [Mgr EXCEPT !.accounts =
                      MapSet(@, NewAccount(id, objCount[id] + 1, 0, "invalid"))],
                   id, dbAgent))
              /\ addCall' = [addCall EXCEPT ![id][a] = IdleCall]
  /\ UNCHANGED <<build, refreshingAccounts, isAgentAuthRunning, dbAgent, dbAccounts,
                 sesAccount, agentFlow, liveCall, tick, init, ops>>

\* fetchLiveRooms returned, lines 455-463
AddFetchedOn(id, a, o) ==
  /\ addCall[id][a].pc = "fetch"
  /\ LET result == fetchLiveRooms(o) IN
       accounts' = IF result # 0
                     THEN ObjSetRooms(accounts, id, addCall[id][a].obj, result)
                     ELSE accounts
  /\ addCall' = [addCall EXCEPT ![id][a] = IdleCall]
  /\ UNCHANGED <<build, objCount, refreshingAccounts, authQueue, isAuthRunning, authProgress,
                 isAgentAuthRunning, agentAuthWin, wins, dbAgent, dbAccounts,
                 sesAccount, drain, agentFlow, liveCall, tick, init, ops>>

AddFetched(id, a) == \E o \in FetchOutcomes : AddFetchedOn(id, a, o)

\* removeAccount, lines 467-473 (a call for an ID that is nowhere changes nothing).
\* A Map iterator that is suspended in an await meets a re-added key as a new entry.
RemoveAccount(id) ==
  /\ init.pc # "start"
  /\ ops < MaxOps
  /\ MapHas(accounts, id) \/ id \in Range(authQueue) \/ dbAccounts[id].present
  /\ ops' = ops + 1
  /\ accounts' = MapDelete(accounts, id)
  /\ authQueue' = SetDelete(authQueue, id)
  /\ dbAccounts' = deleteAccount(dbAccounts, id)
  /\ tick' = [t \in Ticks |-> [tick[t] EXCEPT !.seen = @ \ {id}]]
  /\ init' = [init EXCEPT !.seen = @ \ {id}]
  /\ UNCHANGED <<build, objCount, refreshingAccounts, isAuthRunning, authProgress,
                 isAgentAuthRunning, agentAuthWin, wins, dbAgent, sesAccount,
                 drain, agentFlow, addCall, liveCall>>

\* ------------------------------------------------------------ getLiveRooms
\* getLiveRooms, lines 481-483 of part_000: an account that is being authorized is
\* not fetched; src/auth-manager.ts has no such test
busyReturn(b, acc) == b = "part_000" /\ acc.cookieStatus = "authorizing"

\* The two sources behave alike until getLiveRooms meets an account that is being
\* authorized: which of them runs is settled at the first such call and kept.
BuildsAt(acc) ==
  IF build = "either" /\ acc.cookieStatus = "authorizing" THEN Builds ELSE {build}

\* getLiveRooms, lines 477-486 up to the await of fetchLiveRooms, or lines 481-483,
\* or lines 500-504
GetLiveRooms(id) ==
  /\ init.pc # "start"
  /\ ops < MaxOps
  /\ MapHas(accounts, id)
  /\ liveCall[id].pc = "idle"
  /\ ops' = ops + 1
  /\ \E b \in BuildsAt(Acc(id)) :
       /\ build' = b
       /\ IF busyReturn(b, Acc(id))
            THEN UNCHANGED <<accounts, authQueue, isAuthRunning, authProgress,
                             agentAuthWin, wins, drain, liveCall>>
            ELSE IF Acc(id).cookies # 0
              THEN /\ liveCall' = [liveCall EXCEPT ![id] =
                        [pc |-> "fetch", obj |-> Acc(id).obj, cookies |-> Acc(id).cookies]]
                   /\ UNCHANGED <<accounts, authQueue, isAuthRunning, authProgress,
                                  agentAuthWin, wins, drain>>
              ELSE /\ SetMgr(enqueueAuth(Mgr, id, dbAgent))
                   /\ UNCHANGED liveCall
  /\ UNCHANGED <<objCount, refreshingAccounts, isAgentAuthRunning, dbAgent, dbAccounts,
                 sesAccount, agentFlow, addCall, tick, init>>

\* an invalidation that marks the account and enqueues it but keeps its cookies
invalidateKeepCookies(m, id, n, agent) ==
  enqueueAuth([m EXCEPT !.accounts = ObjSetStatus(@, id, n, "invalid")], id, agent)

\* what a metrics call does with a null result: account.cookieStatus = 'invalid';
\* account.cookies = []; (db.updateAccountStatus by the caller); this.enqueueAuth(advId)
invalidate(m, id, n, agent) ==
  enqueueAuth(
    [m EXCEPT !.accounts = ObjSetCookies(ObjSetStatus(@, id, n, "invalid"), id, n, 0)],
    id, agent)

\* fetchLiveRooms returned to getLiveRooms, lines 487-504
GetLiveRoomsFetchedOn(id, o) ==
  /\ liveCall[id].pc = "fetch"
  /\ LET result == fetchLiveRooms(o) IN
       IF result # 0
         THEN /\ accounts' = ObjSetStatus(
                   ObjSetRooms(accounts, id, liveCall[id].obj, result),
                   id, liveCall[id].obj, "valid")
              /\ dbAccounts' = updateAccountStatus(dbAccounts, id, "valid")
              /\ UNCHANGED <<authQueue, isAuthRunning, authProgress, agentAuthWin,
                             wins, drain>>
         ELSE /\ dbAccounts' = updateAccountStatus(dbAccounts, id, "invalid")
              /\ SetMgr(invalidate(Mgr, id, liveCall[id].obj, dbAgent))
  /\ liveCall' = [liveCall EXCEPT ![id] = IdleCall]
  /\ UNCHANGED <<build, objCount, refreshingAccounts, isAgentAuthRunning, dbAgent,
                 sesAccount, agentFlow, addCall, tick, init, ops>>

GetLiveRoomsFetched(id) == \E o \in FetchOutcomes : GetLiveRoomsFetchedOn(id, o)

\* ------------------------------------------------ startAutoRefresh (sweep)
FreeTick == CHOOSE t \in Ticks :
              /\ tick[t].pc = "idle"
              /\ \A u \in Ticks : tick[u].pc = "idle" => t <= u

RECURSIVE tickNextNoGuard(_, _, _)
\* a sweep loop without the test of refreshingAccounts
tickNextNoGuard(accs, refreshing, seen) ==
  LET todo == {k \in 1..Len(accs) : accs[k].advId \notin seen} IN
  IF todo = {} THEN IdleTick
  ELSE LET k == CHOOSE j \in todo : \A l \in todo : j <= l
           a == accs[k]
       IN IF a.cookieStatus = "authorizing" \/ a.cookies = 0
            THEN tickNextNoGuard(accs, refreshing, seen \cup {a.advId})
            ELSE [pc |-> "fetch", seen |-> seen \cup {a.advId},
                  advId |-> a.advId, obj |-> a.obj]

RECURSIVE tickNext(_, _, _)
\* the for-of loop over this.accounts, lines 510-515, from the entries not yet
\* visited up to the next await of fetchLiveRooms or to the end of the loop
tickNext(accs, refreshing, seen) ==
  LET todo == {k \in 1..Len(accs) : accs[k].advId \notin seen} IN
  IF todo = {} THEN IdleTick
  ELSE LET k == CHOOSE j \in todo : \A l \in todo : j <= l
           a == accs[k]
       IN IF \/ a.advId \in refreshing
             \/ a.cookieStatus = "authorizing"
             \/ a.cookies = 0
            THEN tickNext(accs, refreshing, seen \cup {a.advId})
            ELSE [pc |-> "fetch", seen |-> seen \cup {a.advId},
                  advId |-> a.advId, obj |-> a.obj]

\* the timer fires: the callback runs up to its first await
TickStart(t) ==
  /\ init.pc # "start"
  /\ ops < MaxOps
  /\ \E u \in Ticks : tick[u].pc = "idle"
  /\ t = FreeTick
  /\ ops' = ops + 1
  /\ LET nt == tickNext(accounts, refreshingAccounts, {}) IN
       /\ tick' = [tick EXCEPT ![t] = nt]
       /\ refreshingAccounts' = IF nt.pc = "fetch"
                                  THEN refreshingAccounts \cup {nt.advId}
                                  ELSE refreshingAccounts
  /\ UNCHANGED <<build, accounts, objCount, authQueue, isAuthRunning, authProgress,
                 isAgentAuthRunning, agentAuthWin, wins, dbAgent, dbAccounts,
                 sesAccount, drain, agentFlow, addCall, liveCall, init>>

\* fetchLiveRooms returned to the sweep, lines 517-536, then the loop goes on
TickFetchedOn(t, o) ==
  /\ tick[t].pc = "fetch"
  /\ LET result == fetchLiveRooms(o)
         id == tick[t].advId
         n == tick[t].obj
         m == IF result # 0
                THEN [Mgr EXCEPT !.accounts =
                        ObjSetStatus(ObjSetRooms(@, id, n, result), id, n, "valid")]
                ELSE invalidate(Mgr, id, n, dbAgent)
         refreshing == refreshingAccounts \ {id}
         nt == tickNext(m.accounts, refreshing, tick[t].seen)
     IN /\ SetMgr(m)
        /\ dbAccounts' = IF result # 0 THEN dbAccounts
                         ELSE updateAccountStatus(dbAccounts, id, "invalid")
        /\ tick' = [tick EXCEPT ![t] = nt]
        /\ refreshingAccounts' = IF nt.pc = "fetch" THEN refreshing \cup {nt.advId}
                                 ELSE refreshing
  /\ UNCHANGED <<build, objCount, isAgentAuthRunning, dbAgent, sesAccount, agentFlow,
                 addCall, liveCall, init, ops>>

TickFetched(t) == \E o \in FetchOutcomes : TickFetchedOn(t, o)

\* -------------------------------------------------------------- initialize
RECURSIVE rowsFrom(_, _)
\* db.getAllAccounts(): the rows, as read at the start of initialize
rowsFrom(rows, id) ==
  IF id > NumIds THEN <<>>
  ELSE (IF rows[id].present THEN <<[advId |-> id, cookies |-> rows[id].cookies]>>
        ELSE <<>>) \o rowsFrom(rows, id + 1)

RECURSIVE initLoad(_, _, _, _)
\* the first loop, lines 545-571, from row k up to the next row whose stored
\* cookies must be validated (an await) or to the end of the rows
initLoad(accs, objc, rows, k) ==
  IF k > Len(rows) \/ rows[k].cookies # 0
    THEN [accounts |-> accs, objCount |-> objc, k |-> k]
    ELSE initLoad(
           MapSet(accs, NewAccount(rows[k].advId, objc[rows[k].advId] + 1, 0, "unknown")),
           [objc EXCEPT ![rows[k].advId] = @ + 1], rows, k + 1)

RECURSIVE initNext(_, _)
\* the second loop, lines 574-588, up to the next await of fetchLiveRooms
initNext(accs, seen) ==
  LET todo == {k \in 1..Len(accs) : accs[k].advId \notin seen} IN
  IF todo = {} THEN IdleInit
  ELSE LET k == CHOOSE j \in todo : \A l \in todo : j <= l
           a == accs[k]
       IN IF a.cookies = 0 THEN initNext(accs, seen \cup {a.advId})
          ELSE [pc |-> "fetch", rows |-> <<>>, k |-> 0, seen |-> seen \cup {a.advId},
                advId |-> a.advId, obj |-> a.obj]

RECURSIVE enqueueInvalid(_, _, _)
\* the third loop, lines 591-595
enqueueInvalid(m, k, agent) ==
  IF k > Len(m.accounts) THEN m
  ELSE enqueueInvalid(
         IF m.accounts[k].cookieStatus # "valid"
           THEN enqueueAuth(m, m.accounts[k].advId, agent) ELSE m,
         k + 1, agent)

\* the second loop from the entries not yet visited, then the third loop
initFetchPhase(m, objc, seen, agent) ==
  LET nx == initNext(m.accounts, seen) IN
  IF nx.pc = "fetch" THEN [m |-> m, objCount |-> objc, init |-> nx]
  ELSE [m |-> enqueueInvalid(m, 1, agent), objCount |-> objc, init |-> IdleInit]

\* the first loop from row k, then the rest of initialize up to its next await
initFrom(m, objc, rows, k, agent) ==
  LET ld == initLoad(m.accounts, objc, rows, k) IN
  IF ld.k <= Len(rows)
    THEN [m |-> [m EXCEPT !.accounts = ld.accounts], objCount |-> ld.objCount,
          init |-> [IdleInit EXCEPT !.pc = "validate", !.rows = rows, !.k = ld.k]]
    ELSE initFetchPhase([m EXCEPT !.accounts = ld.accounts], ld.objCount, {}, agent)

SetInit(r) ==
  /\ SetMgr(r.m)
  /\ objCount' = r.objCount
  /\ init' = r.init

\* app.whenReady: initialize() runs up to its first await
InitStart ==
  /\ init.pc = "start"
  /\ SetInit(initFrom(Mgr, objCount, rowsFrom(dbAccounts, 1), 1, dbAgent))
  /\ UNCHANGED <<build, refreshingAccounts, isAgentAuthRunning, dbAgent, dbAccounts,
                 sesAccount, agentFlow, addCall, liveCall, tick, ops>>

\* validateAccountCookies returned to initialize, lines 552-570
InitValidated ==
  /\ init.pc = "validate"
  /\ \E isValid \in BOOLEAN :
       LET row == init.rows[init.k]
           n == objCount[row.advId] + 1
           rec == IF isValid THEN NewAccount(row.advId, n, row.cookies, "valid")
                  ELSE NewAccount(row.advId, n, 0, "invalid")
       IN SetInit(initFrom([Mgr EXCEPT !.accounts = MapSet(@, rec)],
                           [objCount EXCEPT ![row.advId] = n],
                           init.rows, init.k + 1, dbAgent))
  /\ UNCHANGED <<build, refreshingAccounts, isAgentAuthRunning, dbAgent, dbAccounts,
                 sesAccount, agentFlow, addCall, liveCall, tick, ops>>

\* fetchLiveRooms returned to initialize, lines 578-587
InitFetched ==
  /\ init.pc = "fetch"
  /\ \E o \in FetchOutcomes :
     LET result == fetchLiveRooms(o) IN
       SetInit(initFetchPhase(
         [Mgr EXCEPT !.accounts =
            IF result # 0 THEN ObjSetRooms(@, init.advId, init.obj, result) ELSE @],
         objCount, init.seen, dbAgent))
  /\ UNCHANGED <<build, refreshingAccounts, isAgentAuthRunning, dbAgent, dbAccounts,
                 sesAccount, agentFlow, addCall, liveCall, tick, ops>>

\* --------------------------------------------------------- specification
\* The state after construction; the database and the session partition persist
\* from earlier runs.
Start ==
  /\ accounts = <<>>
  /\ objCount = [id \in IDs |-> 0]
  /\ refreshingAccounts = {}
  /\ authQueue = <<>>
  /\ isAuthRunning = FALSE
  /\ authProgress = IdleProgress
  /\ isAgentAuthRunning = FALSE
  /\ agentAuthWin = 0
  /\ wins = [w \in Wins |-> "none"]
  /\ dbAgent \in {[cookies |-> 0, status |-> "unknown"], [cookies |-> 1, status |-> "valid"]}
  /\ dbAccounts \in [IDs -> {NoRow, Row(0, "unknown")} \cup {Row(c, "valid") : c \in IDs}]
  /\ \A id \in IDs : dbAccounts[id].cookies \in {0, id}
  /\ sesAccount = 0
  /\ drain = [s \in DrainSlots |-> IdleDrain]
  /\ agentFlow = [f \in AgentSlots |-> IdleFlow]
  /\ addCall = [id \in IDs |-> [a \in AddSlots |-> IdleCall]]
  /\ liveCall = [id \in IDs |-> IdleCall]
  /\ tick = [t \in Ticks |-> IdleTick]
  /\ init = [IdleInit EXCEPT !.pc = "start"]
  /\ build = "either"

\* no call has been made yet
Init == Start /\ ops = 0

Next ==
  \/ InitStart
  \/ InitValidated
  \/ InitFetched
  \/ \E s \in DrainSlots : DrainValidateAgent(s)
  \/ \E s \in DrainSlots : DrainLoadAgent(s)
  \/ \E s \in DrainSlots : DrainLoginLoad(s)
  \/ \E s \in DrainSlots : DrainLoginPoll(s)
  \/ \E s \in DrainSlots : DrainTraverse(s)
  \/ \E s \in DrainSlots : DrainFetch(s)
  \/ \E f \in AgentSlots : StartAgentAuth(f)
  \/ \E f \in AgentSlots : AgentClear(f)
  \/ \E f \in AgentSlots : AgentLoginLoad(f)
  \/ \E f \in AgentSlots : AgentLoginPoll(f)
  \/ CancelAgentAuth
  \/ \E w \in Wins : UserCloseWindow(w)
  \/ \E id \in IDs : AddAccount(id)
  \/ \E id \in IDs : \E a \in AddSlots : AddValidated(id, a)
  \/ \E id \in IDs : \E a \in AddSlots : AddFetched(id, a)
  \/ \E id \in IDs : RemoveAccount(id)
  \/ \E id \in IDs : GetLiveRooms(id)
  \/ \E id \in IDs : GetLiveRoomsFetched(id)
  \/ \E t \in Ticks : TickStart(t)
  \/ \E t \in Ticks : TickFetched(t)

Spec == Init /\ [][Next]_vars
\* ---------------------------------------------------------------- claims
StatusOf(id) == Acc(id).cookieStatus
CookiesOf(id) == Acc(id).cookies

\* the account that drain s is processing (0: none)
CurrentOf(s) ==
  IF drain[s].pc \in {"traverse", "fetch"} THEN drain[s].pendingIds[drain[s].i] ELSE 0

\* no operation is in the middle of its update of account id
Settled(id) ==
  /\ \A s \in DrainSlots : CurrentOf(s) # id
  /\ \A a \in AddSlots : addCall[id][a].pc = "idle"
  /\ liveCall[id].pc = "idle"
  /\ \A t \in Ticks : tick[t].pc = "idle" \/ tick[t].advId # id
  /\ init.pc = "done"

\* C1: single-flight.  At most one activation of processAuthQueue is draining a
\* batch at any instant, and isAuthRunning is set exactly while one is; a call made
\* while a drain is active therefore returns without taking a batch.
C1_SingleFlight ==
  /\ Cardinality(ActiveDrains(drain)) <= 1
  /\ isAuthRunning <=> ActiveDrains(drain) # {}

\* C1's case: a drain is active and an ID was enqueued after it took its batch
\* (enqueueAuth called processAuthQueue, which returned).
C1_Witness ==
  \E s \in DrainSlots :
    /\ drain[s].pc # "idle"
    /\ \E id \in Range(authQueue) : id \notin Range(drain[s].pendingIds)

\* C2: queue/status coupling.  For every registered account that no operation is
\* in the middle of updating, the ID is in authQueue if and only if the account's
\* cookieStatus is 'authorizing'.
C2_QueueStatusCoupling ==
  \A id \in Registered :
    Settled(id) => (id \in Range(authQueue) <=> StatusOf(id) = "authorizing")

\* a drain in slot s ends in this step (its finally block runs; a new drain may
\* start in the same step)
DrainEnds(s) ==
  /\ drain[s].pc # "idle"
  /\ \/ drain'[s].pc = "idle"
     \/ drain'[s].pc = "validateAgent" /\ drain[s].pc # "validateAgent"
     \/ drain'[s].pc = "loginLoad" /\ drain[s].pc # "validateAgent"
                                   /\ drain'[s] # drain[s]

\* C3: no stuck authorizing.  When a drain completes, every still-registered
\* account of its batch has cookieStatus 'valid' or 'invalid'.
C3_NoStuckAuthorizing ==
  [][\A s \in DrainSlots :
       DrainEnds(s) =>
         \A id \in Range(drain[s].pendingIds) :
           MapHas(accounts', id) =>
             MapGet(accounts', id).cookieStatus \in {"valid", "invalid"}]_vars

\* C4: cookie-status coherence, invalid side.  Every registered account whose
\* cookieStatus is 'invalid' has an empty cookie set.
C4_InvalidHasNoCookies ==
  \A id \in Registered : StatusOf(id) = "invalid" => CookiesOf(id) = 0

\* C5: cookie-status coherence, valid side.  Every registered account whose
\* cookieStatus is 'valid' has a non-empty cookie set.
C5_ValidHasCookies ==
  \A id \in Registered : StatusOf(id) = "valid" => CookiesOf(id) # 0
\* the per-account loop of drain s goes on after the account at index i: the
\* next account of the batch, or the end of the drain after the last one
GoesOn(s) ==
  IF drain[s].i < Len(drain[s].pendingIds)
    THEN /\ drain'[s].pc = "traverse"
         /\ drain'[s].i = drain[s].i + 1
         /\ drain'[s].pendingIds = drain[s].pendingIds
    ELSE DrainEnds(s)

\* every registered account other than id is left as it is
OthersKept(id) ==
  \A o \in Registered \ {id} : MapHas(accounts', o) /\ MapGet(accounts', o) = Acc(o)

\* C6: partial-failure isolation.  When the impersonation of an account of the
\* batch returns, that account alone is settled by its own outcome: with cookies
\* it becomes 'valid' and holds them, without it becomes 'invalid'; no other
\* account is changed; and in both cases, and again when the fetch that follows
\* a success returns, the loop goes on with the next account of the batch, so
\* every account of the batch is processed.
C6_PartialFailureIsolation ==
  [][\A s \in DrainSlots :
       LET d == drain[s]
           id == d.pendingIds[d.i]
       IN /\ (d.pc = "traverse" /\ drain'[s] # d) =>
               /\ OthersKept(id)
               /\ \/ /\ drain'[s].pc = "fetch"
                     /\ drain'[s].i = d.i
                     /\ drain'[s].pendingIds = d.pendingIds
                     /\ drain'[s].cookies # 0
                     /\ MapHas(accounts', id)
                     /\ MapGet(accounts', id).cookieStatus = "valid"
                     /\ MapGet(accounts', id).cookies = drain'[s].cookies
                  \/ /\ MapHas(accounts', id) =>
                          MapGet(accounts', id).cookieStatus = "invalid"
                     /\ GoesOn(s)
          /\ (d.pc = "fetch" /\ drain'[s] # d) =>
               /\ OthersKept(id)
               /\ MapHas(accounts, id) =>
                    /\ MapHas(accounts', id)
                    /\ MapGet(accounts', id).cookieStatus = Acc(id).cookieStatus
               /\ GoesOn(s)]_vars

\* C6's case: in one batch the first account failed and the second, after it,
\* was impersonated with success.
C6_Witness ==
  \E s \in DrainSlots :
    /\ drain[s].pc = "fetch"
    /\ drain[s].i = 2
    /\ MapHas(accounts, drain[s].pendingIds[1])
    /\ StatusOf(drain[s].pendingIds[1]) = "invalid"
    /\ MapHas(accounts, drain[s].pendingIds[2])
    /\ StatusOf(drain[s].pendingIds[2]) = "valid"

\* the interactive logins in progress (waitForAgentLogin running)
DrainLogins == {s \in DrainSlots : drain[s].pc \in {"loginLoad", "loginPoll"}}
AgentLogins == {f \in AgentSlots : agentFlow[f].pc \in {"loginLoad", "loginPoll"}}
Impersonations == {s \in DrainSlots : drain[s].pc = "traverse"}

\* C7: interactive logins and impersonations are serialized.  At no instant are
\* two interactive logins in progress, and at no instant is one in progress
\* while an impersonation is running.
C7_LoginsSerialized ==
  /\ Cardinality(DrainLogins) + Cardinality(AgentLogins) <= 1
  /\ Impersonations # {} => DrainLogins = {} /\ AgentLogins = {}

\* a metrics fetch for id, of getLiveRooms or of the sweep, returns in this step
MetricsReturn(id) ==
  \/ liveCall[id].pc = "fetch" /\ liveCall'[id].pc = "idle"
  \/ \E t \in Ticks : /\ tick[t].pc = "fetch"
                      /\ tick[t].advId = id
                      /\ id \in refreshingAccounts
                      /\ id \notin refreshingAccounts'

\* C8: the sweep and getLiveRooms do not touch an account that is being
\* authorized.  A metrics fetch that returns while the account is 'authorizing'
\* leaves the account's status and cookies as they are.
C8_NoWriteWhileAuthorizing ==
  [][\A id \in IDs :
       (MapHas(accounts, id) /\ StatusOf(id) = "authorizing" /\ MetricsReturn(id)) =>
         /\ MapHas(accounts', id)
         /\ MapGet(accounts', id).cookieStatus = "authorizing"
         /\ MapGet(accounts', id).cookies = CookiesOf(id)]_vars

\* C9: stale read on a busy account.  getLiveRooms on a registered account whose
\* status is 'authorizing' starts no fetch, enqueues nothing, starts no drain, and
\* changes no account (status, cookies, rooms), no queue and no store row.
C9_StaleReadWhenBusy ==
  [][\A id \in IDs :
       (MapHas(accounts, id) /\ StatusOf(id) = "authorizing" /\ GetLiveRooms(id)) =>
         UNCHANGED <<accounts, authQueue, liveCall, dbAccounts, drain,
                     isAuthRunning, authProgress>>]_vars

\* C10: cancel of an interactive login.  When a login whose window
\* cancelAgentAuth closed comes to its end, no account is marked 'invalid' by
\* it, for a login of the drain as for one of startAgentAuth.
C10_CancelMarksNoAccount ==
  [][\A id \in IDs :
       /\ MapHas(accounts, id) /\ MapHas(accounts', id)
       /\ MapGet(accounts', id).cookieStatus = "invalid"
       /\ StatusOf(id) # "invalid"
       => /\ \A s \in DrainLogins :
               wins[DrainWin(s)] = "cancelled" => drain'[s] = drain[s]
          /\ \A f \in AgentLogins :
               wins[AgentWin(f)] = "cancelled" => agentFlow'[f] = agentFlow[f]]_vars
\* C11: automatic retry of invalid accounts.  A sweep tick that passes over a
\* registered account that is 'invalid', not queued and not being refreshed, and
\* comes to the end of its pass, has put the account's ID in the authorization
\* queue.
C11_SweepRetriesInvalid ==
  [][\A t \in Ticks : \A id \in IDs :
       /\ TickStart(t)
       /\ tick'[t].pc = "idle"
       /\ MapHas(accounts, id)
       /\ StatusOf(id) = "invalid"
       /\ id \notin refreshingAccounts
       /\ id \notin Range(authQueue)
       => id \in Range(authQueue')]_vars
\* the request of fetchLiveRooms, or the parsing of its answer, threw
TransientError == [kind |-> "error", rooms |-> 0]

\* C12: a transient metrics failure does not invalidate a session.  When the
\* fetch of getLiveRooms or of the sweep for a registered account ends in a
\* network or parse error, the account's record (status, cookies, snapshot) and
\* its queue membership are left as they are.
C12_TransientFailureKeepsSession ==
  [][\A id \in IDs :
       /\ MapHas(accounts, id)
       /\ \/ GetLiveRoomsFetchedOn(id, TransientError)
          \/ \E t \in Ticks : tick[t].advId = id /\ TickFetchedOn(t, TransientError)
       => /\ MapHas(accounts', id)
          /\ MapGet(accounts', id) = Acc(id)
          /\ id \in Range(authQueue') <=> id \in Range(authQueue)]_vars
\* the entries of a sequence that are equal to x
Occurrences(q, x) == {k \in 1..Len(q) : q[k] = x}

\* C13: idempotent add.  Two addAccount calls for one ID that have both set
\* their record and await its first fetch hold the same record, which is the
\* one each of them returns; the registry holds at most one record per ID and
\* the queue at most one entry per ID.
C13_IdempotentAdd ==
  \A id \in IDs :
    /\ \A a, b \in AddSlots :
         addCall[id][a].pc = "fetch" /\ addCall[id][b].pc = "fetch"
           => addCall[id][a].obj = addCall[id][b].obj
    /\ Cardinality({k \in 1..Len(accounts) : accounts[k].advId = id}) <= 1
    /\ Cardinality(Occurrences(authQueue, id)) <= 1
\* the sweep's fetch for id returns null and the record it fetched for is still
\* the registry's
SweepNull(t, id) ==
  /\ tick[t].advId = id
  /\ IsLive(accounts, id, tick[t].obj)
  /\ \E o \in FetchOutcomes : fetchLiveRooms(o) = 0 /\ TickFetchedOn(t, o)

\* C14 as stated: after the sweep step that got null for a 'valid' account with
\* cookies, the account is 'invalid' with no cookies, queued, its snapshot kept.
C14_SweepLeavesInvalid ==
  [][\A t \in Ticks : \A id \in IDs :
       SweepNull(t, id) /\ StatusOf(id) = "valid" /\ CookiesOf(id) # 0
       => /\ MapGet(accounts', id).cookieStatus = "invalid"
          /\ MapGet(accounts', id).cookies = 0
          /\ id \in Range(authQueue')
          /\ MapGet(accounts', id).liveRooms = Acc(id).liveRooms
          /\ MapGet(accounts', id).lastFetchTime = Acc(id).lastFetchTime]_vars

\* C14, amended: after the sweep step that got null for an account, the account
\* has no cookies, its ID is queued, its snapshot and fetch time are kept, the
\* store's status is 'invalid', and its in-memory status is 'authorizing' (set by
\* the enqueue) unless the ID was queued before the step, in which case it is
\* 'invalid'.
C14_SweepInvalidation ==
  [][\A t \in Ticks : \A id \in IDs :
       SweepNull(t, id)
       => /\ MapHas(accounts', id)
          /\ MapGet(accounts', id).cookieStatus =
               IF id \in Range(authQueue) THEN "invalid" ELSE "authorizing"
          /\ MapGet(accounts', id).cookies = 0
          /\ id \in Range(authQueue')
          /\ MapGet(accounts', id).liveRooms = Acc(id).liveRooms
          /\ MapGet(accounts', id).lastFetchTime = Acc(id).lastFetchTime
          /\ dbAccounts[id].present => dbAccounts'[id].status = "invalid"]_vars

\* C14's case: the only call so far is a sweep tick; it has invalidated an account
\* that had a snapshot and gone on to fetch for the next account.
C14_Witness ==
  \E t \in Ticks : \E id \in Registered :
    /\ ops = 1
    /\ tick[t].pc = "fetch"
    /\ tick[t].advId # id
    /\ id \in tick[t].seen
    /\ StatusOf(id) = "authorizing"
    /\ CookiesOf(id) = 0
    /\ id \in Range(authQueue)
    /\ Acc(id).liveRooms # 0
    /\ dbAccounts[id].status = "invalid"
\* the store and the registry are empty, start-up is over and nothing is running
EmptyStart ==
  /\ init.pc = "done"
  /\ accounts = <<>>
  /\ \A j \in IDs : ~dbAccounts[j].present
  /\ authQueue = <<>>
  /\ ~isAuthRunning
  /\ \A s \in DrainSlots : drain[s] = IdleDrain
  /\ \A f \in AgentSlots : agentFlow[f].pc = "idle"

\* X is the only account and the only ID of the queue, it is being authorized,
\* and drain s has it as its batch
Authorizing(X, s) ==
  /\ Registered = {X}
  /\ StatusOf(X) = "authorizing"
  /\ CookiesOf(X) = 0
  /\ authQueue = <<X>>
  /\ isAuthRunning
  /\ authProgress.isRunning /\ authProgress.total = 1 /\ authProgress.done = 0
  /\ drain[s].pendingIds = <<X>>
  /\ \A r \in DrainSlots \ {s} : drain[r] = IdleDrain

\* the impersonation of X has returned cookies and drain s awaits X's metrics
Impersonated(X, s) ==
  /\ Registered = {X}
  /\ StatusOf(X) = "valid"
  /\ CookiesOf(X) # 0
  /\ authQueue = <<X>>
  /\ isAuthRunning
  /\ drain[s].pendingIds = <<X>>
  /\ drain[s].pc = "fetch"
  /\ IsLive(accounts, X, drain[s].obj)
  /\ \A r \in DrainSlots \ {s} : drain[r] = IdleDrain

\* C15: from an empty store and registry, AddAccount(X) leaves X 'authorizing' and
\* queued with a drain started for it; in that drain a failed agent validation
\* opens the login window, a successful login starts the impersonation of X, an
\* impersonation that returns cookies makes X 'valid' with them, and a metrics
\* result S ends the drain with X 'valid', its rooms equal to S, the queue empty
\* and the progress record idle.  Each step starts in the state the one before
\* it has left.
C15_EndToEndAuthorization ==
  [][\A X \in IDs :
       /\ EmptyStart /\ AddAccount(X)
          => \E s \in DrainSlots :
               /\ Authorizing(X, s)'
               /\ authProgress'.current = 0
               /\ drain'[s].pc = IF dbAgent.cookies # 0 THEN "validateAgent" ELSE "loginLoad"
               /\ drain'[s].pc = "loginLoad" => wins'[DrainWin(s)] = "open"
       /\ \A s \in DrainSlots :
            /\ /\ drain[s].pc = "validateAgent" /\ Authorizing(X, s)
               /\ DrainValidateAgent(s) /\ drain'[s].pc # "loadAgent"
               => /\ Authorizing(X, s)'
                  /\ drain'[s].pc = "loginLoad"
                  /\ wins'[DrainWin(s)] = "open"
            /\ /\ drain[s].pc = "loginLoad" /\ Authorizing(X, s)
               /\ DrainLoginLoad(s) /\ isAuthRunning'
               => /\ Authorizing(X, s)'
                  /\ drain'[s].pc = "loginPoll"
            /\ /\ drain[s].pc = "loginPoll" /\ Authorizing(X, s)
               /\ DrainLoginPoll(s) /\ dbAgent' # dbAgent
               => /\ Authorizing(X, s)'
                  /\ drain'[s].pc = "traverse"
                  /\ drain'[s].i = 1
                  /\ authProgress'.current = X
                  /\ dbAgent'.cookies # 0
                  /\ wins'[DrainWin(s)] = "none"
            /\ /\ drain[s].pc = "traverse" /\ Authorizing(X, s)
               /\ DrainTraverse(s) /\ sesAccount = 0 /\ sesAccount' = X
               => /\ Impersonated(X, s)'
                  /\ dbAccounts[X].present
                       => dbAccounts'[X].cookies # 0 /\ dbAccounts'[X].status = "valid"
            /\ \A S \in Snapshots :
                 /\ drain[s].pc = "fetch" /\ Impersonated(X, s)
                 /\ DrainFetchOn(s, [kind |-> "ok", rooms |-> S])
                 => /\ Registered' = {X}
                    /\ MapGet(accounts', X).cookieStatus = "valid"
                    /\ MapGet(accounts', X).cookies = CookiesOf(X)
                    /\ MapGet(accounts', X).liveRooms = S
                    /\ authQueue' = <<>>
                    /\ authProgress' = IdleProgress
                    /\ ~isAuthRunning'
                    /\ \A r \in DrainSlots : drain'[r] = IdleDrain]_vars

\* C15's case: the one call made was for X, the drain has impersonated X and
\* ended, and X is 'valid' with a snapshot, the queue empty, the progress idle.
C15_Witness ==
  \E X \in IDs :
    /\ init.pc = "done"
    /\ ops = 1
    /\ Registered = {X}
    /\ objCount[X] = 1
    /\ dbAccounts[X].present /\ dbAccounts[X].status = "valid"
    /\ \A j \in IDs \ {X} : ~dbAccounts[j].present
    /\ \A s \in DrainSlots : drain[s] = IdleDrain
    /\ sesAccount = X
    /\ dbAgent.cookies # 0
    /\ StatusOf(X) = "valid"
    /\ CookiesOf(X) = X
    /\ Acc(X).liveRooms # 0
    /\ authQueue = <<>>
    /\ authProgress = IdleProgress
    /\ ~isAuthRunning
\* the login of drain s fails in this step: the load of the login page rejects, the
\* window is found closed, or the poll loop runs out
LoginFails(s) ==
  /\ drain[s].pc \in {"loginLoad", "loginPoll"}
  /\ DrainEnds(s)

\* C16: when the login of a drain fails, the step sets every registered account of
\* the batch 'invalid', removes every batch ID from the queue, starts no
\* impersonation (the session and the store are untouched) and ends the cycle: no
\* drain holds an ID of the batch afterwards, and with the queue empty the running
\* flag is cleared and the progress record idle.
C16_LoginFailureFailsBatch ==
  [][\A s \in DrainSlots :
       LoginFails(s)
       => /\ \A id \in Range(drain[s].pendingIds) :
               /\ id \notin Range(authQueue')
               /\ MapHas(accounts, id)
                    => /\ MapHas(accounts', id)
                       /\ MapGet(accounts', id).cookieStatus = "invalid"
          /\ \A r \in DrainSlots :
               /\ drain'[r].pc \notin {"loadAgent", "traverse", "fetch"}
               /\ Range(drain'[r].pendingIds) \cap Range(drain[s].pendingIds) = {}
               /\ drain'[r].pc # "idle" => drain'[r].pendingIds = authQueue'
          /\ sesAccount' = sesAccount
          /\ dbAccounts' = dbAccounts
          /\ isAuthRunning' <=> authQueue' # <<>>
          /\ authQueue' = <<>> => authProgress' = IdleProgress]_vars

\* C16's case: no call has been made, start-up queued both accounts, no agent
\* cookies were ever saved, so the login of their drain has failed: both are
\* 'invalid', the queue is empty, nothing runs.
C16_Witness ==
  /\ ops = 0
  /\ init.pc = "done"
  /\ Registered = IDs
  /\ \A id \in IDs : StatusOf(id) = "invalid"
  /\ authQueue = <<>>
  /\ ~isAuthRunning
  /\ authProgress = IdleProgress
  /\ dbAgent.cookies = 0
RejectedSession == [kind |-> "rejected", rooms |-> 0]

\* C17: when the fetch of getLiveRooms(X) returns with the session rejected, the
\* step empties X's cookies, writes 'invalid' to the store, marks X 'invalid' and
\* enqueues it (which sets a newly queued X 'authorizing'), and leaves X's
\* snapshot and fetch time, which the call returns, as they were.
C17_RejectedSessionInvalidates ==
  [][\A X \in IDs :
       /\ liveCall[X].pc = "fetch"
       /\ IsLive(accounts, X, liveCall[X].obj)
       /\ GetLiveRoomsFetchedOn(X, RejectedSession)
       => /\ IsLive(accounts', X, liveCall[X].obj)
          /\ MapGet(accounts', X).cookies = 0
          /\ X \in Range(authQueue')
          /\ MapGet(accounts', X).cookieStatus =
               IF X \in Range(authQueue) THEN "invalid" ELSE "authorizing"
          /\ dbAccounts[X].present => dbAccounts'[X].status = "invalid"
          /\ MapGet(accounts', X).liveRooms = Acc(X).liveRooms
          /\ MapGet(accounts', X).lastFetchTime = Acc(X).lastFetchTime
          /\ liveCall'[X] = IdleCall]_vars

\* C17's case: one call has been made and has returned, no sweep is under way; an
\* account that had a snapshot has lost its cookies, is queued with a drain
\* running, the store says 'invalid' and still holds the stored cookies.
C17_Witness ==
  \E X \in Registered :
    /\ ops = 1
    /\ \A id \in IDs : liveCall[id] = IdleCall
    /\ \A t \in Ticks : tick[t] = IdleTick
    /\ refreshingAccounts = {}
    /\ StatusOf(X) = "authorizing"
    /\ CookiesOf(X) = 0
    /\ Acc(X).liveRooms # 0
    /\ authQueue = <<X>>
    /\ isAuthRunning
    /\ dbAccounts[X].status = "invalid"
    /\ dbAccounts[X].cookies # 0
\* q without the entries equal to x, in q's order
Without(q, x) == SelectSeq(q, LAMBDA e : e # x)

\* C18: a removeAccount(X) step leaves X out of the registry, the queue and the
\* store, returns true exactly when the step deleted a store row, and leaves
\* every other account's record, queue entry and store row as it was.
C18_RemoveAccountFrame ==
  [][\A X \in IDs :
       RemoveAccount(X)
       => /\ ~MapHas(accounts', X)
          /\ X \notin Range(authQueue')
          /\ ~dbAccounts'[X].present
          /\ deleteAccountResult(dbAccounts, X) <=> dbAccounts'[X] # dbAccounts[X]
          /\ deleteAccountResult(dbAccounts, X) <=> dbAccounts[X].present
          /\ authQueue' = Without(authQueue, X)
          /\ \A j \in IDs \ {X} :
               /\ MapHas(accounts', j) <=> MapHas(accounts, j)
               /\ MapHas(accounts, j) => MapGet(accounts', j) = MapGet(accounts, j)
               /\ dbAccounts'[j] = dbAccounts[j]]_vars

\* C18's case: the one call made has removed the account that start-up had
\* registered; it is nowhere, and the other account is registered with its row.
C18_Witness ==
  \E X \in IDs : \E Y \in IDs \ {X} :
    /\ ops = 1
    /\ init.pc = "done"
    /\ objCount[X] = 1
    /\ ~MapHas(accounts, X)
    /\ X \notin Range(authQueue)
    /\ ~dbAccounts[X].present
    /\ MapHas(accounts, Y)
    /\ dbAccounts[Y].present
    /\ Y \in Range(authQueue)
\* the statuses a caller of enqueueAuth may have written just before the call
Statuses == {"unknown", "valid", "invalid", "authorizing"}

\* C19: in every reachable state, and whatever status its caller has just
\* written, enqueueAuth(X) for a queued X returns the manager as it is (queue,
\* accounts, progress, running flag, drains); a second enqueueAuth(X) changes
\* nothing after a first; and the queue holds no ID twice.
C19_EnqueueIdempotent ==
  \A X \in IDs :
    /\ X \in Range(authQueue)
         => \A st \in Statuses :
              LET m == [Mgr EXCEPT !.accounts = SetStatus(@, X, st)] IN
              enqueueAuth(m, X, dbAgent) = m
    /\ LET once == enqueueAuth(Mgr, X, dbAgent) IN
         /\ X \in Range(once.authQueue)
         /\ enqueueAuth(once, X, dbAgent) = once
    /\ Cardinality(Occurrences(authQueue, X)) <= 1

\* C19's case: an account was marked 'invalid' and enqueued while its ID was in
\* the queue; the enqueue did nothing, so it is still 'invalid' and queued once.
C19_Witness ==
  \E X \in Registered :
    /\ X \in Range(authQueue)
    /\ StatusOf(X) = "invalid"
    /\ Cardinality(Occurrences(authQueue, X)) = 1
\* initialize returns in this step
InitializeCompletes == init.pc # "done" /\ init'.pc = "done"

\* C20: when initialize completes, every account of the store is registered, and
\* every registered account is 'valid' with cookies and not queued, or
\* 'authorizing' and queued.
C20_ConsistentAfterInitialize ==
  [][InitializeCompletes
     => /\ \A id \in IDs : dbAccounts'[id].present => MapHas(accounts', id)
        /\ \A id \in IDs :
             MapHas(accounts', id)
             => \/ /\ MapGet(accounts', id).cookieStatus = "valid"
                   /\ MapGet(accounts', id).cookies # 0
                   /\ id \notin Range(authQueue')
                \/ /\ MapGet(accounts', id).cookieStatus = "authorizing"
                   /\ id \in Range(authQueue')]_vars
\* C21: no row of the store has status 'valid' together with an empty cookie list.
C21_StoreValidHasCookies ==
  \A id \in IDs :
    dbAccounts[id].present /\ dbAccounts[id].status = "valid"
    => dbAccounts[id].cookies # 0
\* processAuthQueue calls notifyUpdate (line 328) when it passes its guard and
\* starts a drain, and not when it returns at line 322
processAuthQueueNotifies(m) == ~AuthGuard(m)

\* enqueueAuth has no notifyUpdate of its own: one is called in the stretch only
\* if the ID is new to the queue and processAuthQueue starts a drain
enqueueAuthNotifies(m, id) ==
  /\ id \notin Range(m.authQueue)
  /\ processAuthQueueNotifies([m EXCEPT !.authQueue = Append(@, id)])

\* getLiveRooms, lines 476-505, has no notifyUpdate of its own either: after a
\* result (487-493) none is called, after null (495-499) and for an account
\* without cookies (501) only what enqueueAuth brings
getLiveRoomsNotifies(id, result) == result = 0 /\ enqueueAuthNotifies(Mgr, id)

\* cancelAgentAuth, lines 95-102, calls no notifyUpdate
cancelAgentAuthNotifies == FALSE

\* C22: a step of getLiveRooms that changes the status of its account, and a
\* cancelAgentAuth that changes the login state, call notifyUpdate before they end.
C22_NotifiedAfterChange ==
  [][/\ \A X \in IDs :
          /\ /\ liveCall[X].pc = "idle" /\ GetLiveRooms(X)
             /\ MapGet(accounts', X).cookieStatus # StatusOf(X)
             => getLiveRoomsNotifies(X, 0)
          /\ \A o \in FetchOutcomes :
               /\ liveCall[X].pc = "fetch" /\ MapHas(accounts, X)
               /\ GetLiveRoomsFetchedOn(X, o)
               /\ MapGet(accounts', X).cookieStatus # StatusOf(X)
               => getLiveRoomsNotifies(X, fetchLiveRooms(o))
     /\ /\ CancelAgentAuth
        /\ isAgentAuthRunning' # isAgentAuthRunning \/ agentAuthWin' # agentAuthWin
        => cancelAgentAuthNotifies]_vars
\* a continuation of a running drain: one of its awaits returns
DrainStep ==
  \E s \in DrainSlots :
    \/ DrainValidateAgent(s)
    \/ DrainLoadAgent(s)
    \/ DrainLoginLoad(s)
    \/ DrainLoginPoll(s)
    \/ DrainTraverse(s)
    \/ DrainFetch(s)

\* the number of calls made from outside in the runs checked for progress
MaxOpsFair == 1

\* the same start, with MaxOpsFair calls left to make
InitFair == Start /\ ops = MaxOps - MaxOpsFair

\* every external operation that a drain awaits returns
SpecFair == InitFair /\ [][Next]_vars /\ WF_vars(DrainStep)

\* C23: a drain that ends with IDs in the queue starts a new drain for exactly
\* those IDs in the same step, and one that ends with the queue empty leaves the
\* worker idle; every queued ID eventually leaves the queue; and the worker always
\* comes back to idle with an empty queue.
C23_QueueEventuallyDrained ==
  /\ [][\A s \in DrainSlots :
          DrainEnds(s)
          => IF authQueue' # <<>>
               THEN /\ isAuthRunning'
                    /\ authProgress'.isRunning
                    /\ \E r \in DrainSlots :
                         /\ drain'[r].pc \in {"validateAgent", "loginLoad"}
                         /\ drain'[r].pendingIds = authQueue'
               ELSE /\ ~isAuthRunning'
                    /\ authProgress' = IdleProgress
                    /\ \A r \in DrainSlots : drain'[r] = IdleDrain]_vars
  /\ \A X \in IDs : (X \in Range(authQueue)) ~> (X \notin Range(authQueue))
  /\ []<>(authQueue = <<>> /\ ~isAuthRunning)
\* C23's case: a drain has impersonated X and ended while Y was queued, and a new
\* drain for Y has started in its place.
C23_Witness ==
  \E s \in DrainSlots : \E X \in Registered : \E Y \in IDs \ {X} :
    /\ sesAccount = X
    /\ StatusOf(X) = "valid"
    /\ X \notin Range(authQueue)
    /\ authQueue = <<Y>>
    /\ drain[s].pendingIds = <<Y>>
    /\ drain[s].pc \in {"validateAgent", "loginLoad"}
\* a drain starts in slot s in this step
DrainStarts(s) ==
  /\ drain'[s].pc \in {"validateAgent", "loginLoad"}
  /\ drain[s].pc = "idle" \/ DrainEnds(s)

\* the IDs of the batch of drain s that its loop has not finished with: all of
\* them before the loop, those from the current index on inside it
Ahead(s) ==
  {drain[s].pendingIds[k] : k \in {j \in 1..Len(drain[s].pendingIds) : j >= drain[s].i}}

\* C24: a drain's batch is the queue as it is when the drain starts (IDs that the
\* same step enqueues after the start follow it in the queue), and its progress
\* total is the batch's length; neither changes while the drain runs; and an ID that enters
\* the queue while a drain runs is not among the IDs that drain still has to
\* finish, so that it stays queued for a later drain.
C24_FixedBatch ==
  [][\A s \in DrainSlots :
       /\ DrainStarts(s)
          => /\ drain'[s].pendingIds # <<>>
             /\ Len(drain'[s].pendingIds) <= Len(authQueue')
             /\ drain'[s].pendingIds = SubSeq(authQueue', 1, Len(drain'[s].pendingIds))
             /\ authProgress'.total = Len(drain'[s].pendingIds)
       /\ drain[s].pc # "idle" /\ ~DrainEnds(s)
          => /\ drain'[s].pendingIds = drain[s].pendingIds
             /\ authProgress'.total = Len(drain[s].pendingIds)
             /\ \A X \in IDs :
                  X \notin Range(authQueue) /\ X \in Range(authQueue')
                  => X \notin Ahead(s)]_vars
\* the loop of drain s starts in this step (its first call of traverseToAccount)
LoopStarts(s) ==
  /\ drain[s].pc \in {"loadAgent", "loginPoll"}
  /\ drain'[s].pc = "traverse"

\* C25: a drain starts impersonating only when its agent session is usable: the
\* step that makes the first call of traverseToAccount is either the return of
\* loadAgentCookiesToSession with the cookies loaded (it then records the agent as
\* 'valid') or the success of the interactive login (the agent's cookies are then
\* saved as 'valid').
C25_ImpersonateOnlyWithAgentSession ==
  [][\A s \in DrainSlots :
       LoopStarts(s) => dbAgent'.cookies # 0 /\ dbAgent'.status = "valid"]_vars
\* an exception escapes the try block of drain s in this step and the outer catch
\* runs: the load of the login page is rejected
OuterCatch(s) ==
  /\ drain[s].pc = "loginLoad"
  /\ DrainEnds(s)

\* the registered accounts that are 'authorizing' and not queued
Stuck(acc, queue) ==
  {X \in IDs : /\ MapHas(acc, X)
               /\ MapGet(acc, X).cookieStatus = "authorizing"
               /\ X \notin Range(queue)}

Impersonates(s) ==
  /\ drain'[s].pc = "traverse"
  /\ drain[s].pc # "traverse" \/ drain'[s].i # drain[s].i
  /\ ~DrainEnds(s)

\* C27: at most one call of traverseToAccount is in progress at any instant; a
\* batch holds no ID twice, and a drain that is inside its loop is at an ID of its
\* batch; and every call of traverseToAccount a drain makes is for the ID that
\* follows the one it did last in its batch (the first, when it has done none),
\* which is also the ID the progress record shows.
C27_SequentialImpersonation ==
  /\ [](/\ Cardinality(Impersonations) <= 1
        /\ \A s \in DrainSlots :
             /\ Cardinality(Range(drain[s].pendingIds)) = Len(drain[s].pendingIds)
             /\ drain[s].pc \in {"traverse", "fetch"}
                  => drain[s].i \in 1..Len(drain[s].pendingIds))
  /\ [][\A s \in DrainSlots :
          Impersonates(s)
          => /\ drain'[s].pendingIds = drain[s].pendingIds
             /\ drain'[s].i = drain[s].i + 1
             /\ authProgress'.current = drain[s].pendingIds[drain[s].i + 1]]_vars

\* C27's case: a drain with a batch of two has done the first account, which is
\* 'valid' and out of the queue, and is impersonating the second.
C27_Witness ==
  \E s \in DrainSlots :
    /\ Len(drain[s].pendingIds) = 2
    /\ drain[s].pc = "traverse"
    /\ drain[s].i = 2
    /\ authProgress.done = 1
    /\ MapHas(accounts, drain[s].pendingIds[1])
    /\ MapGet(accounts, drain[s].pendingIds[1]).cookieStatus = "valid"
    /\ drain[s].pendingIds[1] \notin Range(authQueue)
\* drain s takes a step of its agent resolution (lines 333-367): the return of
\* loadAgentCookiesToSession or a round of its interactive login
AgentResolution(s) ==
  /\ drain[s].pc \in {"loadAgent", "loginPoll"}
  /\ drain'[s] # drain[s]

\* C28: the stored agent credential changes only in a step of a drain's agent
\* resolution, and at no instant are two refreshes of it (interactive logins of a
\* drain or of startAgentAuth, or a drain's load of the agent cookies) in progress.
C28_AgentCredentialOneWriter ==
  /\ [][dbAgent' # dbAgent => \E s \in DrainSlots : AgentResolution(s)]_vars
  /\ [](Cardinality({s \in DrainSlots : drain[s].pc \in {"loadAgent", "loginLoad", "loginPoll"}})
          + Cardinality(AgentLogins) <= 1)
\* id enters the queue in this step
Enqueued(id) == id \notin Range(authQueue) /\ id \in Range(authQueue')

\* a drain that has id in its batch takes a step
DrainActsOn(id) ==
  \E s \in DrainSlots :
    /\ drain[s].pc # "idle"
    /\ id \in Range(drain[s].pendingIds)
    /\ drain'[s] # drain[s]

\* a login of startAgentAuth succeeds in this step and the re-authorization of
\* every account follows (lines 73-80)
AgentLoggedIn ==
  \E f \in AgentSlots :
    /\ agentFlow[f].pc = "loginPoll"
    /\ agentFlow'[f].pc = "idle"
    /\ dbAgent' = [cookies |-> 1, status |-> "valid"]
    /\ Registered \subseteq Range(authQueue')

\* the change of status from a to b of account id in this step is a transition of
\* the state machine (or two of them made one after the other within the step)
Transition(id, a, b) ==
  \/ a = "unknown" /\ b \in {"valid", "invalid"}
  \/ a = "valid" /\ b = "invalid" /\ MetricsReturn(id)
  \/ a = "invalid" /\ b = "authorizing" /\ Enqueued(id)
  \/ a = "valid" /\ b = "authorizing" /\ MetricsReturn(id) /\ Enqueued(id)
  \/ a = "authorizing" /\ b \in {"valid", "invalid"} /\ DrainActsOn(id)
  \/ b = "authorizing" /\ AgentLoggedIn

\* C29: every change of the cookieStatus of an account that stays registered is a
\* transition of the state machine: unknown to valid or invalid; valid to invalid
\* when a metrics fetch for it returns; invalid to authorizing when it enters the
\* queue; authorizing to valid or invalid in a step of a drain that has it in its
\* batch; any status to authorizing when a login of startAgentAuth succeeds.
C29_StatusTransitions ==
  [][\A id \in IDs :
       /\ MapHas(accounts, id)
       /\ MapHas(accounts', id)
       /\ MapGet(accounts', id).obj = MapGet(accounts, id).obj
       /\ MapGet(accounts', id).cookieStatus # MapGet(accounts, id).cookieStatus
       => Transition(id, MapGet(accounts, id).cookieStatus,
                     MapGet(accounts', id).cookieStatus)]_vars
\* the ticks whose sweep is awaiting fetchLiveRooms for id
SweepFetches(id) == {t \in Ticks : tick[t].pc = "fetch" /\ tick[t].advId = id}

\* tick t starts a fetch for id in this step
SweepStarts(t, id) ==
  /\ tick'[t].pc = "fetch"
  /\ tick'[t].advId = id
  /\ tick[t].pc # "fetch" \/ tick[t].advId # id \/ tick[t].obj # tick'[t].obj

\* the sweep step of tick t ends in this step (fetchLiveRooms returned to it)
SweepStepEnds(t) ==
  /\ tick[t].pc = "fetch"
  /\ \/ tick'[t].pc # "fetch"
     \/ tick'[t].advId # tick[t].advId
     \/ tick'[t].obj # tick[t].obj

\* C30: at any instant at most one fetch of the sweep is in flight for an account,
\* and the guard holds exactly the accounts with a sweep fetch in flight; a tick
\* starts a fetch only for a registered account that is not 'authorizing', has
\* cookies and was not guarded; and when a sweep step ends, whatever the fetch
\* returned, its account is out of the guard unless a fetch for it starts again.
C30_RefreshGuard ==
  /\ [](/\ \A id \in IDs : Cardinality(SweepFetches(id)) <= 1
        /\ refreshingAccounts = {id \in IDs : SweepFetches(id) # {}})
  /\ [][\A t \in Ticks :
          /\ \A id \in IDs :
               SweepStarts(t, id)
               => /\ MapHas(accounts', id)
                  /\ MapGet(accounts', id).cookieStatus # "authorizing"
                  /\ MapGet(accounts', id).cookies # 0
                  /\ id \notin refreshingAccounts \/ SweepFetches(id) = {t}
          /\ SweepStepEnds(t)
               => \/ tick[t].advId \notin refreshingAccounts'
                  \/ \E u \in Ticks : SweepStarts(u, tick[t].advId)]_vars

\* C30's case: two ticks overlap; the first is fetching for X, and the second,
\* started meanwhile, has passed X over and is fetching for Y.
C30_Witness ==
  \E t \in Ticks : \E u \in Ticks \ {t} :
    /\ tick[t].pc = "fetch"
    /\ tick[u].pc = "fetch"
    /\ tick[t].advId # tick[u].advId
    /\ tick[t].advId \in tick[u].seen
    /\ refreshingAccounts = {tick[t].advId, tick[u].advId}
\* the fetch that follows the impersonation of drain s fails in this step
DrainFetchFails(s) ==
  /\ drain[s].pc = "fetch"
  /\ \E o \in FetchOutcomes : o.kind # "ok" /\ DrainFetchOn(s, o)

\* C31: when traverseToAccount returns cookies for a registered X, the step marks
\* X 'valid' with those cookies in the registry and 'valid' in the store and
\* leaves X's snapshot alone; and when the fetch that follows fails, the step
\* changes no account and no store row, takes X out of the queue and counts it:
\* done goes up by one when the batch goes on, and the drain ends when X was its
\* last ID.
C31_FetchFailureNotFatal ==
  [][\A s \in DrainSlots :
       /\ drain[s].pc = "traverse" /\ drain'[s].pc = "fetch"
          => LET X == drain[s].pendingIds[drain[s].i] IN
             /\ drain'[s].cookies # 0
             /\ MapHas(accounts, X)
             /\ MapGet(accounts', X) =
                  [MapGet(accounts, X) EXCEPT !.cookieStatus = "valid",
                                              !.cookies = drain'[s].cookies]
             /\ dbAccounts[X].present => dbAccounts'[X].status = "valid"
             /\ X \in Range(authQueue') <=> X \in Range(authQueue)
       /\ DrainFetchFails(s)
          => LET X == drain[s].pendingIds[drain[s].i] IN
             /\ accounts' = accounts
             /\ dbAccounts' = dbAccounts
             /\ X \notin Range(authQueue')
             /\ IF drain[s].i < Len(drain[s].pendingIds)
                  THEN /\ authProgress'.done = authProgress.done + 1
                       /\ drain'[s].i = drain[s].i + 1
                  ELSE DrainEnds(s)]_vars

\* C31's case: no call has been made; a drain has impersonated X, which opened
\* X's session, and the fetch that followed failed (X's snapshot is still empty):
\* X is 'valid' with the cookies of that session, out of the queue and counted.
C31_Witness ==
  \E X \in Registered :
    /\ ops = 0
    /\ sesAccount = X
    /\ StatusOf(X) = "valid"
    /\ CookiesOf(X) = X
    /\ Acc(X).liveRooms = 0
    /\ X \notin Range(authQueue)
    /\ authProgress.current # X
\* a login of startAgentAuth, flow f, succeeds in this step
AgentSucceeds(f) ==
  /\ agentFlow[f].pc = "loginPoll"
  /\ AgentLoginPollOn(f, TRUE)

\* flow f of startAgentAuth ends in this step without a login: the load of the
\* login page is rejected, the window is found closed (by the user or by
\* cancelAgentAuth), or the poll loop runs out
AgentFails(f) ==
  /\ agentFlow[f].pc \in {"loginLoad", "loginPoll"}
  /\ agentFlow'[f].pc = "idle"
  /\ ~AgentLoginPollOn(f, TRUE)

\* cancelAgentAuth is called in this step
Cancels ==
  /\ agentAuthWin # 0 \/ isAgentAuthRunning
  /\ CancelAgentAuth

\* the IDs whose iteration a drain is in the middle of (awaiting
\* traverseToAccount or the fetch after it); the drain takes such an ID out of
\* the queue when the iteration ends
InFlight(d) ==
  {d[s].pendingIds[d[s].i] : s \in {r \in DrainSlots : d[r].pc \in {"traverse", "fetch"}}}

\* C32: when a login of startAgentAuth succeeds, the step sets every registered
\* account 'authorizing' (nothing else of it changes), puts every one into the
\* queue behind the IDs already there, and leaves a drain active when there is an
\* account; every one of them is still to be taken up by a drain, that is, none
\* is the account a running drain is in the middle of; when the flow ends without
\* a login, and when cancelAgentAuth is called, the step changes no account, no
\* store row and not the queue.
C32_AgentReauthorization ==
  [][/\ \A f \in AgentSlots :
          /\ AgentSucceeds(f)
             => /\ Len(accounts') = Len(accounts)
                /\ \A k \in 1..Len(accounts) :
                     accounts'[k] = [accounts[k] EXCEPT !.cookieStatus = "authorizing"]
                /\ Registered \subseteq Range(authQueue')
                /\ Len(authQueue) <= Len(authQueue')
                /\ SubSeq(authQueue', 1, Len(authQueue)) = authQueue
                /\ Range(authQueue') = Range(authQueue) \cup Registered
                /\ authQueue' # <<>> => isAuthRunning' /\ ActiveDrains(drain') # {}
                /\ Registered \cap InFlight(drain') = {}
                /\ dbAccounts' = dbAccounts
          /\ AgentFails(f)
             => /\ accounts' = accounts
                /\ authQueue' = authQueue
                /\ dbAccounts' = dbAccounts
     /\ Cancels
          => /\ accounts' = accounts
             /\ authQueue' = authQueue
             /\ dbAccounts' = dbAccounts]_vars
\* how far a drain has come: the awaits of processAuthQueue in the order in which
\* one activation can reach them
Measure(d) ==
  CASE d.pc = "idle" -> 0
    [] d.pc = "validateAgent" -> 0
    [] d.pc \in {"loadAgent", "loginLoad"} -> 1
    [] d.pc = "loginPoll" -> 1 + d.poll
    [] d.pc = "traverse" -> maxRetries + 2 * d.i
    [] d.pc = "fetch" -> maxRetries + 2 * d.i + 1

\* C33: a login wait never makes more than maxRetries polls and a drain never goes
\* past the last ID of its batch; every step of a drain either ends it or takes
\* it further, with the batch unchanged, along the bounded sequence of its awaits
\* (so a drain over n accounts makes at most n impersonations); the step that
\* ends it clears isAuthRunning and the progress record unless it starts the next
\* drain; and, every awaited call returning, a drain in its agent resolution
\* reaches its loop or its end, and a drain in its loop reaches its end.
C33_DrainTerminates ==
  /\ [](\A s \in DrainSlots :
          /\ drain[s].poll <= maxRetries
          /\ drain[s].i <= Len(drain[s].pendingIds))
  /\ [][\A s \in DrainSlots :
          /\ drain[s].pc # "idle" /\ drain'[s] # drain[s] /\ ~DrainEnds(s)
             => /\ Measure(drain'[s]) > Measure(drain[s])
                /\ drain'[s].pendingIds = drain[s].pendingIds
          /\ DrainEnds(s)
             => \/ ~isAuthRunning' /\ authProgress' = IdleProgress
                \/ /\ \E r \in DrainSlots : DrainStarts(r)
                   /\ authProgress'.done = 0]_vars
  /\ \A s \in DrainSlots :
       /\ (drain[s].pc \in {"validateAgent", "loadAgent", "loginLoad", "loginPoll"})
            ~> (drain[s].pc \in {"idle", "traverse"})
       /\ (drain[s].pc \in {"traverse", "fetch"})
            ~> (drain[s].pc = "idle" \/ drain[s].i = 0)

\* C33's case: a drain has logged the agent in, gone through its batch and
\* ended: an impersonation has taken place, nothing is queued and the worker is
\* idle with the progress record reset.
C33_Witness ==
  /\ \A s \in DrainSlots : drain[s] = IdleDrain
  /\ ~isAuthRunning
  /\ authProgress = IdleProgress
  /\ authQueue = <<>>
  /\ sesAccount # 0
  /\ dbAgent = [cookies |-> 1, status |-> "valid"]
  /\ \E X \in Registered : StatusOf(X) = "valid"
\* the number of batch IDs drain record d has finished with
Processed(d) == IF d.pc \in {"traverse", "fetch"} THEN d.i - 1 ELSE 0

\* C34: while a drain is active the progress record says so, its total is the
\* length of the drain's batch, its done is the number of batch IDs the drain
\* has finished with (between 0 and total), and its current is null before the
\* loop and the ID the loop is at inside it; while no drain is active the record
\* is {isRunning: false, current: null, done: 0, total: 0}.
C34_ProgressRecord ==
  /\ \A s \in ActiveDrains(drain) :
       /\ authProgress.isRunning
       /\ authProgress.total = Len(drain[s].pendingIds)
       /\ authProgress.done = Processed(drain[s])
       /\ authProgress.done >= 0
       /\ authProgress.done <= authProgress.total
       /\ authProgress.current =
            IF drain[s].pc \in {"traverse", "fetch"}
              THEN drain[s].pendingIds[drain[s].i] ELSE 0
  /\ ActiveDrains(drain) = {} => authProgress = IdleProgress

\* C34's case: a drain of two accounts has finished with the first and is at the
\* second: done is 1 of 2 and current is the second ID.
C34_Witness ==
  \E s \in DrainSlots :
    /\ Len(drain[s].pendingIds) = 2
    /\ drain[s].pc \in {"traverse", "fetch"}
    /\ drain[s].i = 2
    /\ authProgress = [isRunning |-> TRUE, current |-> drain[s].pendingIds[2],
                       done |-> 1, total |-> 2]
\* C35: a drain that starts while the stored agent status is 'valid' does not
\* call validateAgentCookies: it goes on with the stored cookies; a drain calls
\* it only when the stored status is not 'valid'.
C35_AgentReusePolicy ==
  [][\A s \in DrainSlots :
       DrainStarts(s) /\ drain'[s].pc = "validateAgent"
       => dbAgent'.status # "valid"]_vars

\* C35 as amended: a drain that starts while agent cookies are stored calls
\* validateAgentCookies whatever the stored status is, and one that starts with
\* none stored opens the login; the stored cookies are loaded only after that
\* call answered, and the loop starts only from the load or from the login.
C35_AgentAlwaysValidated ==
  [][\A s \in DrainSlots :
       /\ DrainStarts(s)
          => drain'[s].pc = IF dbAgent'.cookies # 0 THEN "validateAgent" ELSE "loginLoad"
       /\ drain'[s].pc = "loadAgent" /\ drain[s].pc # "loadAgent"
          => drain[s].pc = "validateAgent" /\ dbAgent.cookies # 0
       /\ LoopStarts(s) /\ drain[s].pc = "loadAgent" => dbAgent.cookies # 0]_vars

\* C35's case: a drain has started while the agent is stored 'valid' with cookies
\* and is awaiting validateAgentCookies.
C35_Witness ==
  \E s \in DrainSlots :
    /\ drain[s].pc = "validateAgent"
    /\ dbAgent = [cookies |-> 1, status |-> "valid"]

\* the sweep or getLiveRooms gets a rejected session for id in this step, for
\* the record that is still the registry's
Detects(id) ==
  \/ /\ liveCall[id].pc = "fetch"
     /\ IsLive(accounts, id, liveCall[id].obj)
     /\ GetLiveRoomsFetchedOn(id, RejectedSession)
  \/ \E t \in Ticks :
       /\ tick[t].pc = "fetch"
       /\ tick[t].advId = id
       /\ IsLive(accounts, id, tick[t].obj)
       /\ TickFetchedOn(t, RejectedSession)

\* C36: when the sweep or getLiveRooms detects a rejected session for a registered
\* account X, then after the step X is in the queue and is not the account whose
\* iteration a drain is in the middle of, so that a drain step that starts after
\* the detection authorizes it; and the step in which a drain takes X out of the
\* queue after impersonating it does not leave X 'invalid' without cookies.
C36_NoLostRequest ==
  [][\A X \in IDs :
       /\ Detects(X)
          => /\ X \in Range(authQueue')
             /\ X \notin InFlight(drain')
       /\ \A s \in DrainSlots :
            /\ drain[s].pc = "fetch"
            /\ drain[s].pendingIds[drain[s].i] = X
            /\ drain'[s] # drain[s]
            /\ IsLive(accounts', X, drain[s].obj)
            => ~ /\ MapGet(accounts', X).cookieStatus = "invalid"
                 /\ MapGet(accounts', X).cookies = 0
                 /\ X \notin Range(authQueue')]_vars

\* C37: whenever a step of a drain marks account X 'valid', the cookies it puts
\* into X's record and into X's store row are those of X's own session (a cookie
\* set is named by the account whose session produced it), never those that the
\* shared session held from another account.
C37_CookiesOfOwnSession ==
  [][\A s \in DrainSlots :
       drain[s].pc = "traverse" /\ drain'[s].pc = "fetch"
       => LET X == drain[s].pendingIds[drain[s].i] IN
          /\ MapGet(accounts', X).cookieStatus = "valid"
          /\ MapGet(accounts', X).cookies = X
          /\ dbAccounts[X].present => dbAccounts'[X].cookies = X]_vars

\* C38: the queue only holds registered accounts.  In every state between two steps
\* of the operations, every id of authQueue is a key of the registry accounts, also
\* after removeAccount(X) ran while a metrics fetch for X was in flight.
C38_QueueHoldsRegistered ==
  \A id \in Range(authQueue) : MapHas(accounts, id)

\* the activations of startAgentAuth that have begun and not yet left their
\* finally block
FlowsInProgress == {f \in AgentSlots : agentFlow[f].pc # "idle"}

\* C39: at most one activation of startAgentAuth is in progress at any time, and
\* isAgentAuthRunning is set exactly while one is, also after cancelAgentAuth was
\* called on it and until it has left its finally block; and the step in which a
\* flow finishes leaves the login window of every other flow open.
C39_OneAgentFlow ==
  /\ [](Cardinality(FlowsInProgress) <= 1)
  /\ [](isAgentAuthRunning <=> FlowsInProgress # {})
  /\ [][\A f \in FlowsInProgress : agentFlow'[f].pc = "idle"
          => \A g \in AgentSlots \ {f} :
               wins[AgentWin(g)] = "open" => wins'[AgentWin(g)] = "open"]_vars
\* C40: no authorization work for a removed account.  Every call of
\* traverseToAccount a drain makes is for an ID that is a key of the registry at
\* that moment, or that an addAccount call under way is about to register; an ID
\* that removeAccount deleted is in neither case until addAccount is called again,
\* also when it is part of the batch the drain took before the removal.
C40_NoWorkForRemoved ==
  [][\A s \in DrainSlots :
       Impersonates(s)
       => LET X == drain'[s].pendingIds[drain'[s].i] IN
          \/ MapHas(accounts', X)
          \/ \E a \in AddSlots : addCall'[X][a].pc # "idle"]_vars
====
